---- MODULE Spec2Model ----
(***************************************************************************)
(* A model of the in-page autofill pipeline of the TailoredResume browser  *)
(* extension: the ATS detector (content/ats-detector.js), the autofill     *)
(* controller and its overlay (content/content-script.js, ui-overlay.js)   *)
(* and the form filler (content/form-filler.js) with the XPath utilities.  *)
(*                                                                         *)
(* Strings that the code inspects character by character (URLs, URL        *)
(* patterns, regular-expression sources) are sequences of one-character    *)
(* strings.                                                                *)
(***************************************************************************)
EXTENDS Integers, Sequences, FiniteSets, TLC

VARIABLES
    \* ---- ATSDetector ----
    url,          \* window.location.href
    configs,      \* this.configs: the registry, in Object.entries order
    atsResult,    \* what detect() returned: "pending", "null" or a name
    pat,          \* the pattern last handed to matchPattern
    patResult,    \* what matchPattern returned for (url, pat), once pat is set
    \* ---- the page, the content script, AutofillController, UIOverlay ----
    readyState,        \* document.readyState when the content script starts
    containerPresent,  \* an element #tailored-resume-overlay exists beforehand
    page,              \* the success-indicator locators present in the DOM
    ipc,               \* position of the script / of AutofillController.init
    submittedAtInit,   \* isSubmittedPage(...) was true when init checked it
    offered,           \* showAutofillButton has been called
    onAutofill,        \* UIOverlay.onAutofill: "null", "signin" or "autofill"
    handlerRegistered, \* this overlay's click listener is on the button
    buttonDisplay,     \* button.style.display: "", "flex" or "none"
    hpc,               \* position of the handleAutofill run, "idle" if none
    runs,              \* handleAutofill runs started so far
    overlap,           \* a run was started while another was active
    clicks,            \* clicks on the overlay button so far
    signIns,           \* OPEN_SIGNIN messages the overlay button has sent
    resumeFile,        \* this.resumeData.resumeFile is set
    resumeDecodes,     \* this.resumeData.resumeFile is valid base64
    autofillRun,       \* the handleAutofill run started last: what it did
    \* ---- FormFiller.fill ----
    fcfg,          \* ats.config, the configuration the form is filled from
    data,          \* tailoredData
    dom,           \* the locators that find an element in the page
    domChanges,    \* how often the page has changed during the fill
    task,          \* per entry of inputSelectors: the fillField call
    floc,          \* position of fill(): "call", "awaitField", "delay", "done", "raised"
    fi,            \* the entry fill() is at
    filledCount,
    skipCount,
    tried,         \* per entry: the candidates looked up so far
    filledBy,      \* per entry: the fillElement call that filled it
    timedOut,      \* <<entry, candidate>>: a required wait of its actions timed out
    softTimeouts,  \* <<entry, candidate, step, element>>: an allowFailure wait timed out
    lastEvent,     \* what the last step looked up or dispatched
    \* ---- waitForElement, FileUploader ----
    wt,            \* a call of waitForElement: its arguments, position and page
    up,            \* a call of FileUploader.tryUpload: its position and page
    \* ---- ResumeTailor, JobExtractor ----
    pf             \* a call of one of their functions: arguments and result

detVars == <<url, configs, atsResult, pat, patResult>>

ctlVars == <<readyState, containerPresent, page, ipc, submittedAtInit, offered,
             onAutofill, handlerRegistered, buttonDisplay, hpc, runs, overlap,
             clicks, signIns, resumeFile, resumeDecodes, autofillRun>>

fillVars == <<fcfg, data, dom, domChanges, task, floc, fi, filledCount, skipCount,
              tried, filledBy, timedOut, softTimeouts, lastEvent>>

auxVars == <<wt, up, pf>>

vars == <<detVars, ctlVars, fillVars, auxVars>>

(***************************************************************************)
(* Bounds of the model.                                                    *)
(***************************************************************************)
MaxUrlLen == 3
MaxPatLen == 3
MaxClicks == 3

(***************************************************************************)
(* Character-sequence helpers.                                             *)
(***************************************************************************)
\* all sequences over alphabet A of length at most n
SeqsUpTo(A, n) == UNION { [1..k -> A] : k \in 0..n }

\* String.prototype.toLowerCase on one character ('i' flag folding)
LowerTable ==
    [c \in {"A","B","C","D","E","F","G","H","I","J","K","L","M",
            "N","O","P","Q","R","S","T","U","V","W","X","Y","Z"} |->
        CASE c = "A" -> "a" [] c = "B" -> "b" [] c = "C" -> "c" [] c = "D" -> "d"
          [] c = "E" -> "e" [] c = "F" -> "f" [] c = "G" -> "g" [] c = "H" -> "h"
          [] c = "I" -> "i" [] c = "J" -> "j" [] c = "K" -> "k" [] c = "L" -> "l"
          [] c = "M" -> "m" [] c = "N" -> "n" [] c = "O" -> "o" [] c = "P" -> "p"
          [] c = "Q" -> "q" [] c = "R" -> "r" [] c = "S" -> "s" [] c = "T" -> "t"
          [] c = "U" -> "u" [] c = "V" -> "v" [] c = "W" -> "w" [] c = "X" -> "x"
          [] c = "Y" -> "y" [] c = "Z" -> "z"]

ToLower(c) == IF c \in DOMAIN LowerTable THEN LowerTable[c] ELSE c

\* String.prototype.replace(/c/g, r): every occurrence of the character c in
\* s is replaced by the character sequence r
RECURSIVE ReplaceAll(_, _, _)
ReplaceAll(s, c, r) ==
    IF s = <<>> THEN <<>>
    ELSE (IF Head(s) = c THEN r ELSE <<Head(s)>>) \o ReplaceAll(Tail(s), c, r)

(***************************************************************************)
(* ATSDetector.matchPattern: the wildcard pattern is rewritten into the    *)
(* source of a regular expression by four successive global replaces, the  *)
(* expression is compiled with the 'i' flag and tested (unanchored)        *)
(* against the URL.                                                        *)
(***************************************************************************)
regexPattern(pattern) ==
    LET r1 == ReplaceAll(pattern, "*", <<".", "*">>)
        r2 == ReplaceAll(r1, "?", <<".">>)
        r3 == ReplaceAll(r2, "/", <<"\\", "/">>)
        r4 == ReplaceAll(r3, ".", <<"\\", ".">>)
    IN  r4

\* new RegExp(source): the source is read left to right into atoms; "\c" is
\* the literal c, "." any character, and a following "*" makes the atom
\* repeat zero or more times.  (The sources regexPattern produces contain no
\* other metacharacter.)
RECURSIVE RegExpCompile(_)
RegExpCompile(src) ==
    IF src = <<>> THEN <<>>
    ELSE LET esc  == Head(src) = "\\" /\ Len(src) >= 2
             ch   == IF esc THEN src[2] ELSE Head(src)
             any  == ~esc /\ Head(src) = "."
             used == IF esc THEN 2 ELSE 1
             star == Len(src) > used /\ src[used + 1] = "*"
             rest == SubSeq(src, used + (IF star THEN 2 ELSE 1), Len(src))
         IN  <<[ch |-> ch, any |-> any, star |-> star]>> \o RegExpCompile(rest)

\* one atom against one character, letter case ignored ('i' flag)
AtomMatches(atom, c) == atom.any \/ ToLower(atom.ch) = ToLower(c)

\* the positions (number of characters consumed) the atoms k..Len(atoms) can
\* end at when started at any position of P
RECURSIVE RegExpRun(_, _, _, _)
RegExpRun(atoms, k, s, P) ==
    IF k > Len(atoms) THEN P
    ELSE LET a == atoms[k]
             one(p) == p < Len(s) /\ AtomMatches(a, s[p + 1])
             \* a starred atom: every q >= p with s[p+1..q] all matching
             run(p) == { q \in p..Len(s) : \A i \in (p + 1)..q : AtomMatches(a, s[i]) }
             Q == IF a.star THEN UNION { run(p) : p \in P }
                  ELSE { p + 1 : p \in { p \in P : one(p) } }
         IN  RegExpRun(atoms, k + 1, s, Q)

\* RegExp.prototype.test: a match may start anywhere and end anywhere
RegExpTest(atoms, s) == RegExpRun(atoms, 1, s, 0..Len(s)) # {}

matchPattern(u, hostname, pattern) ==
    RegExpTest(RegExpCompile(regexPattern(pattern)), u)

\* ATSDetector.matchesUrl
matchesUrl(u, hostname, config) ==
    \E i \in 1..Len(config.urls) : matchPattern(u, hostname, config.urls[i])

\* ATSDetector.isExcluded (the same rewriting, written out a second time)
isExcluded(u, config) ==
    \E i \in 1..Len(config.urlsExcluded) :
        RegExpTest(RegExpCompile(regexPattern(config.urlsExcluded[i])), u)

\* ATSDetector.detect, the loop from entry i on: an entry that matches and
\* is not excluded is returned, any other entry is passed over; "null" when
\* the entries are exhausted
RECURSIVE detectFrom(_, _, _)
detectFrom(u, cfgs, i) ==
    IF i > Len(cfgs) THEN "null"
    ELSE IF matchesUrl(u, "", cfgs[i])
         THEN IF isExcluded(u, cfgs[i])
              THEN detectFrom(u, cfgs, i + 1)
              ELSE cfgs[i].name
         ELSE detectFrom(u, cfgs, i + 1)

detect(u, cfgs) == detectFrom(u, cfgs, 1)

(***************************************************************************)
(* The shipped registry (config/ats-selectors.js).  A configuration        *)
(* without urlsExcluded has the empty list: isExcluded answers false for   *)
(* both.                                                                   *)
(***************************************************************************)
GREENHOUSE_urls ==
    << <<"*",":","/","/","b","o","a","r","d","s",".","g","r","e","e","n","h","o","u","s","e",".","i","o","/","*">>,
       <<"*",":","/","/","b","o","a","r","d","s",".","e","u",".","g","r","e","e","n","h","o","u","s","e",".","i","o","/","*">>,
       <<"*",":","/","/","j","o","b","-","b","o","a","r","d","s",".","g","r","e","e","n","h","o","u","s","e",".","i","o","/","*">>,
       <<"*",":","/","/","j","o","b","-","b","o","a","r","d","s",".","e","u",".","g","r","e","e","n","h","o","u","s","e",".","i","o","/","*">> >>

GREENHOUSE_urlsExcluded ==
    << <<"*",":","/","/","b","o","a","r","d","s",".","g","r","e","e","n","h","o","u","s","e",".","i","o","/","*","/","c","o","n","f","i","r","m","a","t","i","o","n">> >>

LEVER_urls ==
    << <<"*",":","/","/","j","o","b","s",".","l","e","v","e","r",".","c","o","/","*">>,
       <<"*",":","/","/","j","o","b","s",".","e","u",".","l","e","v","e","r",".","c","o","/","*">> >>

WORKDAY_urls ==
    << <<"*",":","/","/","*",".","m","y","w","o","r","k","d","a","y","j","o","b","s",".","c","o","m","/","*">>,
       <<"*",":","/","/","*",".","m","y","w","o","r","k","d","a","y","s","i","t","e",".","c","o","m","/","*">> >>

ATS_CONFIGS ==
    << [name |-> "Greenhouse", urls |-> GREENHOUSE_urls, urlsExcluded |-> GREENHOUSE_urlsExcluded],
       [name |-> "Lever",      urls |-> LEVER_urls,      urlsExcluded |-> <<>>],
       [name |-> "Workday",    urls |-> WORKDAY_urls,    urlsExcluded |-> <<>>] >>

(***************************************************************************)
(* Inputs of the detector: page URLs and registries.                       *)
(***************************************************************************)
U_LeverPosting == <<"h","t","t","p","s",":","/","/","j","o","b","s",".","l","e","v","e","r",".","c","o","/","f","i","g","m","a","/","a","b","c","d","-","1","2","3","4">>
U_LeverBoard == <<"h","t","t","p","s",":","/","/","j","o","b","s",".","l","e","v","e","r",".","c","o","/","f","i","g","m","a">>
U_LeverUpper == <<"H","T","T","P","S",":","/","/","J","O","B","S",".","L","E","V","E","R",".","C","O","/","f","i","g","m","a">>
U_Greenhouse == <<"h","t","t","p","s",":","/","/","b","o","a","r","d","s",".","g","r","e","e","n","h","o","u","s","e",".","i","o","/","v","i","m","e","o","/","j","o","b","s","/","5","1","2","3","8","1","7">>
U_GreenhouseConfirmation == <<"h","t","t","p","s",":","/","/","b","o","a","r","d","s",".","g","r","e","e","n","h","o","u","s","e",".","i","o","/","v","i","m","e","o","/","c","o","n","f","i","r","m","a","t","i","o","n">>
U_Other == <<"h","t","t","p","s",":","/","/","e","x","a","m","p","l","e",".","c","o","m","/","j","o","b","s">>

\* https://<tenant>.myworkdayjobs.com/<path>
WorkdayTenants == { <<"a","c","m","e">>, <<"w","d","5">>, <<"a">> }
WorkdayPaths == { <<>>, <<"c","a","r","e","e","r","s">>, <<"e","n","-","U","S","/","j","o","b","s">> }
WorkdayUrls ==
    { <<"h","t","t","p","s",":","/","/">> \o tenant \o <<".","m","y","w","o","r","k","d","a","y","j","o","b","s",".","c","o","m","/">> \o path :
        tenant \in WorkdayTenants, path \in WorkdayPaths }

UrlAlphabet == {"j", "J", ".", "/"}
PatAlphabet == {"j", ".", "*", "?"}

Urls ==
    SeqsUpTo(UrlAlphabet, MaxUrlLen)
        \cup {U_LeverPosting, U_LeverBoard, U_LeverUpper, U_Greenhouse,
              U_GreenhouseConfirmation, U_Other}
        \cup WorkdayUrls

\* every shipped pattern, and the short patterns "*" body "*" (the shape of
\* the shipped inclusion patterns: a wildcard at both ends)
ShippedPatterns ==
    { ATS_CONFIGS[i].urls[k] : i \in 1..Len(ATS_CONFIGS), k \in 1..2 }
        \cup { GREENHOUSE_urls[k] : k \in 1..Len(GREENHOUSE_urls) }
        \cup { GREENHOUSE_urlsExcluded[1] }

Patterns ==
    { <<"*">> \o b \o <<"*">> : b \in SeqsUpTo(PatAlphabet, MaxPatLen) }
        \cup ShippedPatterns

\* the registry of the Lever scenario, and small two-entry registries
LeverOnly == << [name |-> "Lever", urls |-> << LEVER_urls[1] >>, urlsExcluded |-> <<>>] >>

RegPats == { <<"*", "j", "*">>, <<"*", "j", "/", "*">>, <<"*", "j", "*", "/", "*">> }

SmallRegistries ==
    { << [name |-> "P1", urls |-> <<p>>, urlsExcluded |-> x],
         [name |-> "P2", urls |-> <<q>>, urlsExcluded |-> <<>>] >> :
        p \in RegPats, q \in RegPats, x \in {<<>>} \cup { <<e>> : e \in RegPats } }

Registries == {ATS_CONFIGS, LeverOnly} \cup SmallRegistries

(***************************************************************************)
(* FormFiller and XPathUtils.                                              *)
(*                                                                         *)
(* A locator is a sequence of tokens; what the code asks of a locator      *)
(* string - whether it starts with ".//", "//" or "(", whether it contains *)
(* the %INPUTPATH% placeholder - is asked of its tokens.  An element is    *)
(* named by the locator that finds it.  JavaScript values are written as   *)
(* their source text: "undefined", "null", "''", "0", "false", "'US'".     *)
(***************************************************************************)
Null == <<"null">>       \* no element
Throw == <<"throw">>     \* the lookup raised

\* selectors the browser rejects (document.evaluate / querySelector raise)
InvalidSelectors == { <<"bad[">>, <<".//", "bad[">> }

\* XPathUtils.isXPath
isXPath(selector) ==
    selector # <<>> /\ Head(selector) \in {".//", "//", "("}

\* XPathUtils.findFirst: an XPath that fails to evaluate is caught and
\* answered with null
findFirst(xpath, d) ==
    IF xpath \in InvalidSelectors THEN Null
    ELSE IF xpath \in d THEN xpath ELSE Null

\* context.querySelector: raises on an invalid selector
querySelector(selector, d) ==
    IF selector \in InvalidSelectors THEN Throw
    ELSE IF selector \in d THEN selector ELSE Null

\* XPathUtils.find / FormFiller.findElement
find(selector, d) ==
    IF isXPath(selector) THEN findFirst(selector, d) ELSE querySelector(selector, d)

findElement(selector, d) == find(selector, d)

\* the loop over paths in fillComplexSelector: the first path that finds an
\* element ends it, and so does a lookup that raises
RECURSIVE findFirstPath(_, _, _)
findFirstPath(paths, i, d) ==
    IF i > Len(paths) THEN Null
    ELSE IF findElement(paths[i], d) # Null THEN findElement(paths[i], d)
         ELSE findFirstPath(paths, i + 1, d)

\* String(config.path): an array of paths is joined with commas
RECURSIVE joinPaths(_)
joinPaths(paths) ==
    IF paths = <<>> THEN <<>>
    ELSE IF Len(paths) = 1 THEN paths[1]
         ELSE paths[1] \o <<",">> \o joinPaths(Tail(paths))

\* actionPath.replace(/%INPUTPATH%/g, inputPath)
replacePlaceholder(actionPath, inputPath) ==
    ReplaceAll(actionPath, "%INPUTPATH%", inputPath)

\* ---- JavaScript values ----
Falsy == {"undefined", "null", "''", "0", "false", "NaN"}
ToBoolean(v) == v \notin Falsy

\* fillField: "if (!value && value !== 0 && value !== false)" - no value
noValue_ZeroAndFalseToo(v) == ~ToBoolean(v)
noValue(v) == ~ToBoolean(v) /\ v # "0" /\ v # "false"

\* FormFiller.getValueForField
fieldMap ==
    [n \in {"first_name", "last_name", "full_name", "email", "phone",
            "phone_stripped", "location", "linkedin", "github", "portfolio",
            "summary", "city", "state", "country", "postal_code", "address",
            "authorized_to_work", "requires_sponsorship", "gender",
            "ethnicity", "veteran", "disability"} |->
        CASE n = "first_name" -> "firstName"
          [] n = "last_name" -> "lastName"
          [] n = "full_name" -> "fullName"
          [] n = "phone_stripped" -> "phoneStripped"
          [] n = "postal_code" -> "postalCode"
          [] n = "authorized_to_work" -> "authorizedToWork"
          [] n = "requires_sponsorship" -> "requiresSponsorship"
          [] OTHER -> n]

getValueForField(fieldName, d) ==
    IF fieldName \in DOMAIN fieldMap /\ fieldMap[fieldName] \in DOMAIN d
    THEN d[fieldMap[fieldName]]
    ELSE "undefined"

\* window.VALUE_TRANSFORMS (config/field-mappings.js), the entries used here
VALUE_TRANSFORMS ==
    [t \in {"countryAbbreviationsToNames"} |-> [v \in {"'US'"} |-> "'United States'"]]

\* FormFiller.applyNamedTransform
applyNamedTransform(value, transformName) ==
    IF transformName \in DOMAIN VALUE_TRANSFORMS
       /\ value \in DOMAIN VALUE_TRANSFORMS[transformName]
    THEN VALUE_TRANSFORMS[transformName][value]
    ELSE value

\* fillComplexSelector: "if (config.values && typeof config.values ===
\* 'object') value = this.transformValue(value, config.values)".  values is
\* "none", or names a table (a string), or is a table itself; only a table
\* itself passes the typeof test.
transformedValue(value, spec) ==
    IF spec.values = "none" \/ spec.valuesIsString THEN value
    ELSE applyNamedTransform(value, spec.values)

\* ---- configurations ----
\* a bare locator string
StringSpec(path) ==
    [isString |-> TRUE, path |-> <<path>>, method |-> "none", values |-> "none",
     valuesIsString |-> FALSE, hasActions |-> FALSE, actions |-> <<>>]

\* { path, method }
PathSpec(paths, method) ==
    [isString |-> FALSE, path |-> paths, method |-> method, values |-> "none",
     valuesIsString |-> FALSE, hasActions |-> FALSE, actions |-> <<>>]

\* { path, method, values: '<name>', actions: [...] }
ActionSpec(paths, method, values, actions) ==
    [isString |-> FALSE, path |-> paths, method |-> method, values |-> values,
     valuesIsString |-> (values # "none"), hasActions |-> TRUE, actions |-> actions]

NoPath == <<>>

Step(method, event, delay, time, path, allowFailure) ==
    [method |-> method, event |-> event, delay |-> delay, time |-> time,
     path |-> path, allowFailure |-> allowFailure]

WaitTime == 200        \* the "time" of the waiting steps of the model's configurations
PollInterval == 100    \* waitForElement: await this.delay(100)
fillDelay == 100       \* FormFiller.fillDelay
MaxLateness == 100     \* how late a timer may fire
MaxDomChanges == 2     \* how often the page changes during a fill

XA == <<".//", "input#first_name">>
XB == <<".//", "input[name*=first_name]">>
BadCss == <<"bad[">>
XR == <<"//", "input[type=file]">>
CE == <<"input[type=email]">>

\* three fields in the shape of the Lever configuration: plain candidates
\* (one of them a selector the browser rejects, one a bare string), and the
\* resume entry
SimpleConfig ==
    [name |-> "Simple", defaultMethod |-> "default",
     inputSelectors |->
       << [name |-> "first_name",
           configList |-> << PathSpec(<<XA>>, "react"), StringSpec(BadCss),
                             PathSpec(<<XB>>, "none") >>],
          [name |-> "resume",
           configList |-> << ActionSpec(<<XR>>, "none", "none",
                               << Step("uploadResume", "none", 0, 0, NoPath, FALSE) >>) >>],
          [name |-> "email",
           configList |-> << StringSpec(CE) >>] >>]

XL1 == <<".//", "div.google-location//input">>
XPac == <<"//", "div.pac-container//div.pac-item">>
XL2 == <<".//", "input[name*=location]">>
XE == <<".//", "input#email">>

\* the location field of the Greenhouse configuration (an action sequence
\* with a delay and a required wait, then a plain fallback), then a field
LocationConfig ==
    [name |-> "Location", defaultMethod |-> "react",
     inputSelectors |->
       << [name |-> "location",
           configList |->
             << ActionSpec(<<XL1>>, "react", "none",
                  << Step("clearValue", "none", 0, 0, NoPath, FALSE),
                     Step("defaultWithoutBlur", "none", 100, 0, NoPath, FALSE),
                     Step("none", "mouseover", 0, WaitTime, XPac, FALSE),
                     Step("blur", "none", 0, 0, NoPath, FALSE) >>),
                PathSpec(<<XL2>>, "react") >>],
          [name |-> "email",
           configList |-> << PathSpec(<<XE>>, "react") >>] >>]

XC == <<".//", "button.countryDropdown">>
XOpt == <<"//", "ul[role=listbox]//li[role=option]">>
XP == <<".//", "div.phone">>
XPButton == <<"%INPUTPATH%", "//button.clear">>

\* the country field of the Workday configuration, then a field whose first
\* step waits for an optional control (allowFailure) under the field's path
DropdownConfig ==
    [name |-> "Dropdown", defaultMethod |-> "react",
     inputSelectors |->
       << [name |-> "country",
           configList |->
             << ActionSpec(<<XC>>, "none", "countryAbbreviationsToNames",
                  << Step("click", "none", 0, 0, NoPath, FALSE),
                     Step("none", "keydown", 20, 0, NoPath, FALSE),
                     Step("click", "none", 0, WaitTime, XOpt, FALSE) >>) >>],
          [name |-> "phone",
           configList |->
             << ActionSpec(<<XP>>, "none", "none",
                  << Step("click", "none", 0, WaitTime, XPButton, TRUE),
                     Step("default", "none", 0, 0, NoPath, FALSE) >>) >>] >>]

FillConfigs == {SimpleConfig, LocationConfig, DropdownConfig}

\* the locators of a configuration that the page may hold
LocatorsOf(c) ==
    CASE c = SimpleConfig   -> {XA, XB, XR, CE}
      [] c = LocationConfig -> {XL1, XPac, XL2, XE}
      [] c = DropdownConfig -> {XC, XOpt, XP, replacePlaceholder(XPButton, XP)}

\* the tailored profiles a configuration is filled from
ProfilesOf(c) ==
    CASE c = SimpleConfig ->
           [{"firstName", "email"} -> {"undefined", "null", "''", "0", "false", "'Ann'"}]
      [] c = LocationConfig ->
           [{"location", "email"} -> {"''", "'Austin, TX'"}]
      [] c = DropdownConfig ->
           [{"country", "phone"} -> {"'US'", "0"}]

\* ---- the fill as a state machine ----
\* fill() is one coroutine and each fillField call another; task[k] is the
\* fillField call of the k-th entry of inputSelectors.
Fields == fcfg.inputSelectors
NFields == Len(Fields)
Cands(k) == Fields[k].configList

NoTask ==
    [status |-> "notStarted", ci |-> 0, ai |-> 0, elapsed |-> 0, cur |-> Null,
     value |-> "undefined", tvalue |-> "undefined", result |-> FALSE]

NoEvent ==
    [kind |-> "none", field |-> 0, cand |-> 0, step |-> 0, method |-> "none",
     event |-> "none", target |-> Null, value |-> "undefined"]

Event(kind, k, c, a, method, event, target, value) ==
    [kind |-> kind, field |-> k, cand |-> c, step |-> a, method |-> method,
     event |-> event, target |-> target, value |-> value]

NoFill == [cand |-> 0, target |-> Null, method |-> "none", value |-> "undefined"]

\* the filler part of the state while the filler is not exercised
FillIdle ==
    /\ fcfg = SimpleConfig
    /\ data = [p \in {"firstName", "email"} |-> "undefined"]
    /\ dom = {}
    /\ domChanges = 0
    /\ task = [k \in 1..Len(SimpleConfig.inputSelectors) |-> NoTask]
    /\ floc = "done"
    /\ fi = 1
    /\ filledCount = 0
    /\ skipCount = 0
    /\ tried = [k \in 1..Len(SimpleConfig.inputSelectors) |-> {}]
    /\ filledBy = [k \in 1..Len(SimpleConfig.inputSelectors) |-> NoFill]
    /\ timedOut = {}
    /\ softTimeouts = {}
    /\ lastEvent = NoEvent

\* ---- waitForElement ----
\* FormFiller.waitForElement, FileUploader.waitForElement and
\* XPathUtils.waitFor / waitForAny are the same loop.
InvalidXPath == <<".//", "bad[">>

\* "Array.isArray(selector) ? selector : [selector]": the lists of the model
WaitPathLists == { <<XA>>, <<XA, XB>>, <<XB, XA>>, <<InvalidXPath, CE>> }
WaitLocators == {XA, XB, CE}
WaitTimeouts == {PollInterval, WaitTime, WaitTime + PollInterval}

\* the loop "for (const path of paths) { element = find(path); if (element)
\* return element }" of one tick; XPathUtils.findFirstMatch
findFirstMatch(selectors, d) == findFirstPath(selectors, 1, d)

NoWait ==
    [pc |-> "done", paths |-> <<XA>>, timeout |-> PollInterval, elapsed |-> 0,
     dom |-> {}, dom0 |-> {}, tickDoms |-> <<>>, changes |-> 0, result |-> Null]

NoUpload == [pc |-> "idle"]

NoCall == [pc |-> "idle"]

\* the waiter and the uploader while they are not exercised
AuxIdle ==
    /\ wt = NoWait
    /\ up = NoUpload
    /\ pf = NoCall

\* handleAutofill's stages, in the order of its body
Stages == <<"extract", "tailor", "fill", "upload", "track">>

StageIndex(stage) == CHOOSE i \in 1..Len(Stages) : Stages[i] = stage

\* what a handleAutofill run has done: the stages it entered, the stage that
\* raised, the calls of showError, the AUTOFILL_COMPLETE messages sent with
\* success true (ok) and false (fail), and the clicks made while it was
\* active; what the upload step gave; the TRACK_APPLICATION messages sent
\* (tracked), the steps that had finished and the AUTOFILL_COMPLETE messages
\* that had been sent by then, and whether the message was delivered
NoRun ==
    [stages |-> {}, raisedAt |-> "none", errors |-> 0, ok |-> 0, fail |-> 0,
     clicksDuring |-> 0, upload |-> "none", tracked |-> 0, trackedAfter |-> {},
     completeBeforeTrack |-> 0, delivery |-> "none"]

\* the controller part of the state while only the detector is exercised
CtlIdle ==
    /\ readyState = "complete"
    /\ containerPresent = FALSE
    /\ page = {}
    /\ ipc = "start"
    /\ submittedAtInit = FALSE
    /\ offered = FALSE
    /\ onAutofill = "null"
    /\ handlerRegistered = FALSE
    /\ buttonDisplay = ""
    /\ hpc = "idle"
    /\ runs = 0
    /\ overlap = FALSE
    /\ clicks = 0
    /\ signIns = 0
    /\ resumeFile = FALSE
    /\ resumeDecodes = FALSE
    /\ autofillRun = NoRun

(***************************************************************************)
(* The detector as a state machine.                                        *)
(***************************************************************************)
NoPattern == <<"(none)">>

InitDetect ==
    /\ url \in Urls
    /\ configs \in Registries
    /\ atsResult = "pending"
    /\ pat = NoPattern
    /\ patResult = FALSE
    /\ CtlIdle
    /\ AuxIdle
    /\ FillIdle

\* this.currentATS = this.atsDetector.detect()
Detect ==
    /\ atsResult = "pending"
    /\ atsResult' = detect(url, configs)
    /\ UNCHANGED <<url, configs, pat, patResult, ctlVars, fillVars, auxVars>>

NextDetect == Detect

SpecDetect == InitDetect /\ [][NextDetect]_vars

InitMatch ==
    /\ url \in Urls
    /\ configs = ATS_CONFIGS
    /\ atsResult = "pending"
    /\ pat = NoPattern
    /\ patResult = FALSE
    /\ CtlIdle
    /\ AuxIdle
    /\ FillIdle

\* matchPattern(url, hostname, pattern) for one pattern
MatchPattern ==
    /\ pat = NoPattern
    /\ \E p \in Patterns :
         /\ pat' = p
         /\ patResult' = matchPattern(url, "", p)
    /\ UNCHANGED <<url, configs, atsResult, ctlVars, fillVars, auxVars>>

NextMatch == MatchPattern

SpecMatch == InitMatch /\ [][NextMatch]_vars

(***************************************************************************)
(* The content script, AutofillController and UIOverlay.  The code runs on *)
(* the page's event loop: one action is the code between two awaits.       *)
(***************************************************************************)
\* submittedSuccessPaths of each shipped configuration
submittedSuccessPaths ==
    [n \in {"Greenhouse", "Lever", "Workday"} |->
        CASE n = "Greenhouse" -> {"div.confirmation__content"}
          [] n = "Lever"      -> {"h3.msg-submit-success", "div.application-confirmation"}
          [] n = "Workday"    -> {"dialog.ApplicationSubmitted", "div.WMQT.h2"}]

SuccessLocators == UNION { submittedSuccessPaths[n] : n \in DOMAIN submittedSuccessPaths }

\* ATSDetector.isSubmittedPage: some success-indicator path of the
\* configuration finds an element
isSubmittedPage(name, d) == \E path \in submittedSuccessPaths[name] : path \in d

\* AutofillController.init: "if (isSubmittedPage(config)) return;"
initStopsAtSubmitted_Ignored(submitted) == FALSE
initStopsAtSubmitted(submitted) == submitted

CtlUrls == {U_Greenhouse, U_GreenhouseConfirmation, U_LeverBoard, U_Other}

InitCtl ==
    /\ url \in CtlUrls
    /\ configs = ATS_CONFIGS
    /\ atsResult = "pending"
    /\ pat = NoPattern
    /\ patResult = FALSE
    /\ readyState \in {"loading", "interactive", "complete"}
    /\ containerPresent \in BOOLEAN
    /\ page \in SUBSET SuccessLocators
    /\ ipc = "start"
    /\ submittedAtInit = FALSE
    /\ offered = FALSE
    /\ onAutofill = "null"
    /\ handlerRegistered = FALSE
    /\ buttonDisplay = ""
    /\ hpc = "idle"
    /\ runs = 0
    /\ overlap = FALSE
    /\ clicks = 0
    /\ signIns = 0
    /\ resumeFile = FALSE
    /\ resumeDecodes = FALSE
    /\ autofillRun = NoRun
    /\ FillIdle
    /\ AuxIdle

\* The script's first statement, the async function called at once.  While
\* the document is loading it waits for DOMContentLoaded; otherwise it goes
\* straight on to "new AutofillController()", and the class declaration
\* further down the script has not been evaluated yet: a ReferenceError ends
\* the function.
ScriptStart ==
    /\ ipc = "start"
    /\ ipc' = IF readyState = "loading" THEN "domWait" ELSE "crashed"
    /\ UNCHANGED <<detVars, auxVars, fillVars, readyState, containerPresent, page, submittedAtInit,
                   offered, onAutofill, handlerRegistered, buttonDisplay, hpc,
                   runs, overlap, clicks, signIns, resumeFile, resumeDecodes, autofillRun>>

\* DOMContentLoaded: the controller and its overlay are constructed
\* (UIOverlay.createContainer registers the click listener unless the
\* container already exists) and init() runs up to its first await.
DOMContentLoaded ==
    /\ ipc = "domWait"
    /\ handlerRegistered' = ~containerPresent
    /\ atsResult' = detect(url, configs)
    /\ LET submitted == atsResult' # "null" /\ isSubmittedPage(atsResult', page)
       IN  /\ submittedAtInit' = submitted
           /\ ipc' = IF atsResult' = "null" THEN "noATS"
                     ELSE IF initStopsAtSubmitted(submitted) THEN "submitted"
                     ELSE "auth"
    /\ UNCHANGED <<url, configs, pat, patResult, fillVars, auxVars, readyState, containerPresent,
                   page, offered, onAutofill, buttonDisplay, hpc, runs, overlap,
                   clicks, signIns, resumeFile, resumeDecodes, autofillRun>>

\* the callback init hands to showAuthPrompt:
\* "() => { chrome.runtime.sendMessage({ type: 'OPEN_SIGNIN' }) }"
authPromptCallback_Autofill == "autofill"

authPromptCallback == "signin"

AuthReplies == {"authenticated", "unauthenticated", "rejected", "undefined"}

\* the answer to GET_AUTH_STATE arrives
AuthReply ==
    /\ ipc = "auth"
    /\ \E r \in AuthReplies :
         CASE r = "undefined" ->
                \* authState.isAuthenticated on undefined: TypeError
                /\ ipc' = "crashed"
                /\ UNCHANGED <<onAutofill, buttonDisplay>>
           [] r \in {"unauthenticated", "rejected"} ->
                \* showAuthPrompt: this.button is null when the container existed
                IF containerPresent
                THEN /\ ipc' = "crashed"
                     /\ UNCHANGED <<onAutofill, buttonDisplay>>
                ELSE /\ ipc' = "needAuth"
                     /\ buttonDisplay' = "flex"
                     /\ onAutofill' = authPromptCallback
           [] r = "authenticated" ->
                /\ ipc' = "resume"
                /\ UNCHANGED <<onAutofill, buttonDisplay>>
    /\ UNCHANGED <<detVars, auxVars, fillVars, readyState, containerPresent, page, submittedAtInit,
                   offered, handlerRegistered, hpc, runs, overlap, clicks, signIns,
                   resumeFile, resumeDecodes, autofillRun>>

ResumeReplies == {"rejected", "failure", "undefined", "noData", "noResume",
                  "resumeWithFile", "resumeWithBadFile", "resumeWithoutFile"}

\* the answer to GET_RESUME_DATA arrives
ResumeReply ==
    /\ ipc = "resume"
    /\ \E r \in ResumeReplies :
         CASE r \in {"undefined", "noData"} ->
                \* response.success / response.data.resume on undefined
                /\ ipc' = "crashed"
                /\ UNCHANGED <<onAutofill, buttonDisplay, offered, resumeFile, resumeDecodes>>
           [] r \in {"rejected", "failure", "noResume"} ->
                \* showNoResumeMessage
                /\ IF containerPresent
                   THEN ipc' = "crashed" /\ UNCHANGED buttonDisplay
                   ELSE ipc' = "noResume" /\ buttonDisplay' = "none"
                /\ UNCHANGED <<onAutofill, offered, resumeFile, resumeDecodes>>
           [] r \in {"resumeWithFile", "resumeWithBadFile", "resumeWithoutFile"} ->
                \* showAutofillButton(() => this.handleAutofill()), extract
                /\ resumeFile' = (r # "resumeWithoutFile")
                /\ resumeDecodes' = (r = "resumeWithFile")
                /\ offered' = TRUE
                /\ onAutofill' = "autofill"
                /\ IF containerPresent
                   THEN ipc' = "crashed" /\ UNCHANGED buttonDisplay
                   ELSE ipc' = "ready" /\ buttonDisplay' = "flex"
    /\ UNCHANGED <<detVars, auxVars, fillVars, readyState, containerPresent, page, submittedAtInit,
                   handlerRegistered, hpc, runs, overlap, clicks, signIns, autofillRun>>

\* handleAutofill's catch block: showError, then AUTOFILL_COMPLETE with
\* success false
Caught_NotReported(r, stage) ==
    [r EXCEPT !.raisedAt = stage, !.errors = @ + 1]
Caught(r, stage) ==
    [r EXCEPT !.raisedAt = stage, !.errors = @ + 1, !.fail = @ + 1]

\* UIOverlay.showProgress: this.button.style.display = 'none'
showProgressButton_Shown == "flex"
showProgressButton == "none"

\* FileUploader.base64ToFile: atob raises on a payload that is not base64
base64ToFile(decodes) == IF decodes THEN "file" ELSE "throw"

\* A click at the overlay button.  A button that is not displayed receives
\* no click.  Otherwise the listener runs "if (this.onAutofill)
\* this.onAutofill()": the autofill callback runs handleAutofill up to its
\* first await (the call of formFiller.fill); an exception before that is
\* caught and shown.
Click ==
    /\ handlerRegistered
    /\ clicks < MaxClicks
    /\ clicks' = clicks + 1
    \* the listener: "if (this.onAutofill) this.onAutofill()"
    /\ signIns' = IF buttonDisplay # "none" /\ onAutofill = "signin"
                  THEN signIns + 1 ELSE signIns
    /\ IF buttonDisplay = "none"
       THEN /\ autofillRun' = IF hpc # "idle" THEN [autofillRun EXCEPT !.clicksDuring = @ + 1] ELSE autofillRun
            /\ UNCHANGED <<runs, overlap, buttonDisplay, hpc>>
       ELSE IF onAutofill = "autofill"
       THEN /\ runs' = runs + 1
            /\ overlap' = (overlap \/ hpc # "idle")
            /\ \E raisedAt \in {"none", "extract", "tailor"} :
                 CASE raisedAt = "extract" ->
                        /\ autofillRun' = Caught([NoRun EXCEPT !.stages = {"extract"}], "extract")
                        /\ buttonDisplay' = "flex"                  \* showError
                        /\ UNCHANGED hpc
                   [] raisedAt = "tailor" ->
                        /\ autofillRun' = Caught([NoRun EXCEPT !.stages = {"extract", "tailor"}],
                                         "tailor")
                        /\ buttonDisplay' = "flex"
                        /\ UNCHANGED hpc
                   [] raisedAt = "none" ->
                        /\ autofillRun' = [NoRun EXCEPT !.stages = {"extract", "tailor", "fill"}]
                        /\ buttonDisplay' = showProgressButton      \* showProgress
                        /\ hpc' = "fill"
       ELSE UNCHANGED <<runs, overlap, buttonDisplay, hpc, autofillRun>>
    /\ UNCHANGED <<detVars, auxVars, fillVars, readyState, containerPresent, page, ipc,
                   submittedAtInit, offered, onAutofill, handlerRegistered,
                   resumeFile, resumeDecodes>>

\* trackApplication up to its await: TRACK_APPLICATION is sent; finished are
\* the steps of the run that have returned
trackApplication(r, finished) ==
    [r EXCEPT !.stages = @ \cup {"track"}, !.tracked = @ + 1,
              !.trackedAfter = finished, !.completeBeforeTrack = r.ok + r.fail]

\* trackApplication: "try { await chrome.runtime.sendMessage(...) } catch
\* (error) { console.log(...) }"
trackCatches_Missing == FALSE
trackCatches == TRUE

\* formFiller.fill has returned (or raised); with a resume file the upload
\* is called, without one trackApplication
FillReturns ==
    /\ hpc = "fill"
    /\ \E raised \in BOOLEAN :
         IF raised
         THEN /\ autofillRun' = Caught(autofillRun, "fill")
              /\ buttonDisplay' = "flex"
              /\ hpc' = "idle"
         ELSE IF resumeFile
         THEN /\ autofillRun' = [autofillRun EXCEPT !.stages = @ \cup {"upload"}]
              /\ buttonDisplay' = showProgressButton
              /\ hpc' = "upload"
         ELSE /\ autofillRun' = trackApplication([autofillRun EXCEPT !.upload = "skipped"],
                                                  {"fill"})
              /\ UNCHANGED buttonDisplay
              /\ hpc' = "track"
    /\ UNCHANGED <<detVars, auxVars, fillVars, readyState, containerPresent, page, ipc,
                   submittedAtInit, offered, onAutofill, handlerRegistered, runs,
                   overlap, clicks, signIns, resumeFile, resumeDecodes>>

\* fileUploader.upload has returned true or false, or, its base64ToFile call
\* standing outside its try, has raised
UploadReturns ==
    /\ hpc = "upload"
    /\ IF base64ToFile(resumeDecodes) = "throw"
       THEN /\ autofillRun' = Caught([autofillRun EXCEPT !.upload = "raised"], "upload")
            /\ buttonDisplay' = "flex"
            /\ hpc' = "idle"
       ELSE /\ \E uploadSuccess \in {"true", "false"} :
                 autofillRun' = trackApplication([autofillRun EXCEPT !.upload = uploadSuccess],
                                                 {"fill", "upload"})
            /\ UNCHANGED buttonDisplay
            /\ hpc' = "track"
    /\ UNCHANGED <<detVars, auxVars, fillVars, readyState, containerPresent, page, ipc,
                   submittedAtInit, offered, onAutofill, handlerRegistered, runs,
                   overlap, clicks, signIns, resumeFile, resumeDecodes>>

\* The TRACK_APPLICATION message is delivered, or its promise is rejected.
\* trackApplication catches the rejection and returns: showSuccess and
\* AUTOFILL_COMPLETE with success true.
TrackReturns ==
    /\ hpc = "track"
    /\ \E delivery \in {"delivered", "failed"} :
         IF delivery = "failed" /\ ~trackCatches
         THEN /\ autofillRun' = Caught([autofillRun EXCEPT !.delivery = delivery], "track")
              /\ buttonDisplay' = "flex"
         ELSE /\ autofillRun' = [autofillRun EXCEPT !.delivery = delivery, !.ok = @ + 1]
              /\ buttonDisplay' = "none"
    /\ hpc' = "idle"
    /\ UNCHANGED <<detVars, auxVars, fillVars, readyState, containerPresent, page, ipc,
                   submittedAtInit, offered, onAutofill, handlerRegistered, runs,
                   overlap, clicks, signIns, resumeFile, resumeDecodes>>

\* the page adds or removes a success-indicator element
PageChanges ==
    /\ \E l \in SuccessLocators :
         page' = IF l \in page THEN page \ {l} ELSE page \cup {l}
    /\ UNCHANGED <<detVars, auxVars, fillVars, readyState, containerPresent, ipc, submittedAtInit,
                   offered, onAutofill, handlerRegistered, buttonDisplay, hpc,
                   runs, overlap, clicks, signIns, resumeFile, resumeDecodes, autofillRun>>

NextCtl ==
    \/ ScriptStart
    \/ DOMContentLoaded
    \/ AuthReply
    \/ ResumeReply
    \/ Click
    \/ FillReturns
    \/ UploadReturns
    \/ TrackReturns
    \/ PageChanges

SpecCtl == InitCtl /\ [][NextCtl]_vars

(***************************************************************************)
(* FormFiller.fill as a state machine.                                      *)
(***************************************************************************)
InitFill ==
    /\ url = U_Other
    /\ configs = ATS_CONFIGS
    /\ atsResult = "pending"
    /\ pat = NoPattern
    /\ patResult = FALSE
    /\ CtlIdle
    /\ AuxIdle
    /\ fcfg \in FillConfigs
    /\ data \in ProfilesOf(fcfg)
    /\ dom \in SUBSET LocatorsOf(fcfg)
    /\ domChanges = 0
    /\ task = [k \in 1..NFields |-> NoTask]
    /\ floc = "call"
    /\ fi = 1
    /\ filledCount = 0
    /\ skipCount = 0
    /\ tried = [k \in 1..NFields |-> {}]
    /\ filledBy = [k \in 1..NFields |-> NoFill]
    /\ timedOut = {}
    /\ softTimeouts = {}
    /\ lastEvent = NoEvent

\* fillField returns r; ci stays the candidate it returned at
Returned(t, r) ==
    [t EXCEPT !.status = "done", !.result = r, !.ai = 0, !.elapsed = 0,
              !.cur = Null]

\* fillField's loop over configList goes on after candidate t.ci, or, the
\* candidates exhausted, fillField returns false
nextCandidate(k, t) ==
    IF t.ci < Len(Cands(k))
    THEN [t EXCEPT !.status = "cand", !.ci = t.ci + 1, !.ai = 0, !.elapsed = 0,
                   !.cur = Null, !.tvalue = t.value]
    ELSE Returned(t, FALSE)

\* fillField: "try { ... } catch (error) { console.log(...) }" around each
\* candidate
fillFieldCatches_Missing == FALSE
fillFieldCatches == TRUE

\* an exception raised while candidate t.ci is tried
raisedInCandidate(k, t) ==
    IF fillFieldCatches THEN nextCandidate(k, t)
    ELSE [t EXCEPT !.status = "raised"]

\* fill: "for (const [fieldName, selectorConfigs] of selectors)": the entry
\* the loop takes up after entry i
nextField(i) == i + 1

\* fill: "const filled = await this.fillField(...)": the await resumes once
\* the fillField call has settled
awaitSettled_NotAwaited(t) == TRUE
awaitSettled(t) == t.status \in {"done", "raised"}

\* fill calls fillField for the entry fi
FillCall ==
    /\ floc = "call"
    /\ task' = [task EXCEPT ![fi].status = "start"]
    /\ floc' = "awaitField"
    /\ lastEvent' = NoEvent
    /\ UNCHANGED <<detVars, auxVars, ctlVars, fcfg, data, dom, domChanges, fi, filledCount,
                   skipCount, tried, filledBy, timedOut, softTimeouts>>

\* fillField up to its loop over the candidates: the resume entry and an
\* entry without a value are skipped
FieldStart ==
    /\ \E k \in 1..NFields :
         /\ task[k].status = "start"
         /\ LET name  == Fields[k].name
                value == getValueForField(name, data)
            IN  task' = [task EXCEPT ![k] =
                   IF name = "resume" THEN Returned(@, FALSE)
                   ELSE IF noValue(value)
                        THEN Returned([@ EXCEPT !.value = value], FALSE)
                        ELSE nextCandidate(k, [@ EXCEPT !.value = value])]
    /\ lastEvent' = NoEvent
    /\ UNCHANGED <<detVars, auxVars, ctlVars, fcfg, data, dom, domChanges, floc, fi,
                   filledCount, skipCount, tried, filledBy, timedOut, softTimeouts>>

\* the method a candidate without actions is filled with:
\* fillSimpleSelector(selector, value, atsConfig.defaultMethod), and
\* "config.method || atsConfig.defaultMethod || 'default'"
fillMethod_DefaultOnly(spec) ==
    IF fcfg.defaultMethod # "none" THEN fcfg.defaultMethod ELSE "default"
fillMethod(spec) ==
    IF spec.isString
    THEN (IF fcfg.defaultMethod # "none" THEN fcfg.defaultMethod ELSE "default")
    ELSE IF spec.method # "none" THEN spec.method
         ELSE IF fcfg.defaultMethod # "none" THEN fcfg.defaultMethod
              ELSE "default"

\* tryFillWithSelector for the candidate ci: fillSimpleSelector for a string,
\* fillComplexSelector for an object, up to fillElement or to the call of
\* executeActions
TryCandidate ==
    /\ \E k \in 1..NFields :
         /\ task[k].status = "cand"
         /\ LET t    == task[k]
                spec == Cands(k)[t.ci]
                el   == findFirstPath(spec.path, 1, dom)
                v    == IF spec.isString THEN t.value ELSE transformedValue(t.value, spec)
            IN  /\ tried' = [tried EXCEPT ![k] = @ \cup {t.ci}]
                /\ CASE el = Throw ->
                          /\ task' = [task EXCEPT ![k] = raisedInCandidate(k, t)]
                          /\ lastEvent' = Event("lookup", k, t.ci, 0, "none", "none", Throw, "undefined")
                          /\ UNCHANGED filledBy
                     [] el = Null ->
                          /\ task' = [task EXCEPT ![k] = nextCandidate(k, t)]
                          /\ lastEvent' = Event("lookup", k, t.ci, 0, "none", "none", Null, "undefined")
                          /\ UNCHANGED filledBy
                     [] el \notin {Throw, Null} /\ spec.hasActions ->
                          /\ task' = [task EXCEPT ![k] =
                                        [t EXCEPT !.status = "act", !.ai = 1, !.cur = el,
                                                  !.tvalue = v]]
                          /\ lastEvent' = Event("lookup", k, t.ci, 0, "none", "none", el, "undefined")
                          /\ UNCHANGED filledBy
                     [] el \notin {Throw, Null} /\ ~spec.hasActions ->
                          /\ task' = [task EXCEPT ![k] = Returned(t, TRUE)]
                          /\ lastEvent' = Event("fill", k, t.ci, 0, fillMethod(spec), "none", el, v)
                          /\ filledBy' = [filledBy EXCEPT ![k] =
                                            [cand |-> t.ci, target |-> el,
                                             method |-> fillMethod(spec), value |-> v]]
    /\ UNCHANGED <<detVars, auxVars, ctlVars, fcfg, data, dom, domChanges, floc, fi,
                   filledCount, skipCount, timedOut, softTimeouts>>

\* executeActions: the path a step waits for, its placeholder replaced
actionPath(spec, action) ==
    IF action.path # NoPath /\ spec.path # <<>>
    THEN replacePlaceholder(action.path, joinPaths(spec.path))
    ELSE action.path

\* executeActions: "if (action.time && actionPath)"
stepWaits(spec, action) == action.time # 0 /\ actionPath(spec, action) # NoPath

\* executeActions after the step t.ai: the next step, or "return true"
afterStep(t, spec) ==
    IF t.ai < Len(spec.actions)
    THEN [t EXCEPT !.status = "act", !.ai = t.ai + 1, !.elapsed = 0]
    ELSE Returned(t, TRUE)

\* executeActions: a required wait that timed out ends the sequence
\* ("return false"); with allowFailure the sequence goes on
timeoutEnds_Never(action) == FALSE
timeoutEnds_Always(action) == TRUE
timeoutEnds(action) == ~action.allowFailure

\* one step of executeActions, up to its first await: an uploadResume step
\* is passed over, any other step is dispatched to the current element
DoAction ==
    /\ \E k \in 1..NFields :
         /\ task[k].status = "act"
         /\ LET t      == task[k]
                spec   == Cands(k)[t.ci]
                action == spec.actions[t.ai]
            IN  IF spec.actions = <<>>
                THEN /\ task' = [task EXCEPT ![k] = Returned(t, TRUE)]
                     /\ lastEvent' = NoEvent
                ELSE IF action.method = "uploadResume"
                THEN /\ task' = [task EXCEPT ![k] = afterStep(t, spec)]
                     /\ lastEvent' = NoEvent
                ELSE /\ lastEvent' = Event("action", k, t.ci, t.ai, action.method,
                                           action.event, t.cur, t.tvalue)
                     /\ task' = [task EXCEPT ![k] =
                           IF action.delay # 0 THEN [t EXCEPT !.status = "delay"]
                           ELSE IF stepWaits(spec, action)
                                THEN [t EXCEPT !.status = "wait", !.elapsed = 0]
                                ELSE afterStep(t, spec)]
    /\ UNCHANGED <<detVars, auxVars, ctlVars, fcfg, data, dom, domChanges, floc, fi,
                   filledCount, skipCount, tried, filledBy, timedOut, softTimeouts>>

\* the timer of "await this.delay(action.delay)" fires
DelayDone ==
    /\ \E k \in 1..NFields :
         /\ task[k].status = "delay"
         /\ LET t      == task[k]
                spec   == Cands(k)[t.ci]
                action == spec.actions[t.ai]
            IN  task' = [task EXCEPT ![k] =
                   IF stepWaits(spec, action)
                   THEN [t EXCEPT !.status = "wait", !.elapsed = 0]
                   ELSE afterStep(t, spec)]
    /\ lastEvent' = NoEvent
    /\ UNCHANGED <<detVars, auxVars, ctlVars, fcfg, data, dom, domChanges, floc, fi,
                   filledCount, skipCount, tried, filledBy, timedOut, softTimeouts>>

\* waitForElement, one turn of its loop: while the time is not used up the
\* path is looked up, and an element found becomes the current element;
\* otherwise null is returned to executeActions
Poll ==
    /\ \E k \in 1..NFields :
         /\ task[k].status = "wait"
         /\ LET t      == task[k]
                spec   == Cands(k)[t.ci]
                action == spec.actions[t.ai]
                el     == findElement(actionPath(spec, action), dom)
            IN  IF t.elapsed < action.time
                THEN /\ lastEvent' = Event("poll", k, t.ci, t.ai, "none", "none", el, "undefined")
                     /\ task' = [task EXCEPT ![k] =
                           IF el = Throw THEN raisedInCandidate(k, t)
                           ELSE IF el = Null THEN [t EXCEPT !.status = "sleep"]
                           ELSE afterStep([t EXCEPT !.cur = el], spec)]
                     /\ UNCHANGED <<timedOut, softTimeouts>>
                ELSE /\ lastEvent' = NoEvent
                     /\ timedOut' = IF action.allowFailure THEN timedOut
                                    ELSE timedOut \cup {<<k, t.ci>>}
                     /\ softTimeouts' = IF action.allowFailure
                                        THEN softTimeouts \cup {<<k, t.ci, t.ai, t.cur>>}
                                        ELSE softTimeouts
                     /\ task' = [task EXCEPT ![k] =
                           IF timeoutEnds(action) THEN nextCandidate(k, t)
                           ELSE afterStep(t, spec)]
    /\ UNCHANGED <<detVars, auxVars, ctlVars, fcfg, data, dom, domChanges, floc, fi,
                   filledCount, skipCount, tried, filledBy>>

\* the timer of waitForElement's "await this.delay(100)" fires, on time or
\* late
Wake ==
    /\ \E k \in 1..NFields :
         /\ task[k].status = "sleep"
         /\ \E late \in {0, MaxLateness} :
              task' = [task EXCEPT ![k].status = "wait",
                                   ![k].elapsed = @ + PollInterval + late]
    /\ lastEvent' = NoEvent
    /\ UNCHANGED <<detVars, auxVars, ctlVars, fcfg, data, dom, domChanges, floc, fi,
                   filledCount, skipCount, tried, filledBy, timedOut, softTimeouts>>

\* fill: "if (filled) filledCount++; else skipCount++" - the test on what
\* the await of the fillField call gave (a call that has not returned gives
\* its promise, which is truthy)
fieldFilled_Always(t) == TRUE
fieldFilled(t) == IF t.status = "done" THEN t.result ELSE TRUE

\* fill's await of fillField resumes: the field is counted, and fill goes on
\* to its delay; an exception out of fillField ends fill
FillResume ==
    /\ floc = "awaitField"
    /\ awaitSettled(task[fi])
    /\ IF task[fi].status = "raised"
       THEN /\ floc' = "raised"
            /\ UNCHANGED <<filledCount, skipCount>>
       ELSE /\ floc' = "delay"
            /\ LET filled == fieldFilled(task[fi])
               IN  /\ filledCount' = IF filled THEN filledCount + 1 ELSE filledCount
                   /\ skipCount' = IF filled THEN skipCount ELSE skipCount + 1
    /\ lastEvent' = NoEvent
    /\ UNCHANGED <<detVars, auxVars, ctlVars, fcfg, data, dom, domChanges, task, fi, tried,
                   filledBy, timedOut, softTimeouts>>

\* the timer of "await this.delay(this.fillDelay)" fires: the next entry, or
\* the end of fill
FillDelayDone ==
    /\ floc = "delay"
    /\ fi' = nextField(fi)
    /\ floc' = IF nextField(fi) \in 1..NFields THEN "call" ELSE "done"
    /\ lastEvent' = NoEvent
    /\ UNCHANGED <<detVars, auxVars, ctlVars, fcfg, data, dom, domChanges, task,
                   filledCount, skipCount, tried, filledBy, timedOut, softTimeouts>>

\* the page adds or removes an element while the fill is under way
DomChanges ==
    /\ floc \notin {"done", "raised"}
    /\ domChanges < MaxDomChanges
    /\ domChanges' = domChanges + 1
    /\ \E l \in LocatorsOf(fcfg) :
         dom' = IF l \in dom THEN dom \ {l} ELSE dom \cup {l}
    /\ lastEvent' = NoEvent
    /\ UNCHANGED <<detVars, auxVars, ctlVars, fcfg, data, task, floc, fi, filledCount,
                   skipCount, tried, filledBy, timedOut, softTimeouts>>

NextFill ==
    \/ FillCall
    \/ FieldStart
    \/ TryCandidate
    \/ DoAction
    \/ DelayDone
    \/ Poll
    \/ Wake
    \/ FillResume
    \/ FillDelayDone
    \/ DomChanges

SpecFill == InitFill /\ [][NextFill]_vars

(***************************************************************************)
(* waitForElement as a state machine.                                      *)
(***************************************************************************)
InitWait ==
    /\ url = U_Other
    /\ configs = ATS_CONFIGS
    /\ atsResult = "pending"
    /\ pat = NoPattern
    /\ patResult = FALSE
    /\ CtlIdle
    /\ FillIdle
    /\ up = NoUpload
    /\ pf = NoCall
    /\ \E paths \in WaitPathLists, timeout \in WaitTimeouts, d \in SUBSET WaitLocators :
         wt = [pc |-> "loop", paths |-> paths, timeout |-> timeout, elapsed |-> 0,
               dom |-> d, dom0 |-> d, tickDoms |-> <<>>, changes |-> 0,
               result |-> Null]

\* "while (Date.now() - start < timeout)": the loop goes on
waitGoesOn_Forever(w) == TRUE
waitGoesOn(w) == w.elapsed < w.timeout

\* one turn of the loop, up to its await or its return: while the time is
\* not used up the paths are looked up in order and the first element found
\* is returned; the time used up, null is returned
WaitTick ==
    /\ wt.pc = "loop"
    /\ IF waitGoesOn(wt)
       THEN LET el == findFirstMatch(wt.paths, wt.dom)
            IN  wt' = [wt EXCEPT !.tickDoms = Append(@, wt.dom),
                                 !.pc = IF el = Throw THEN "raised"
                                        ELSE IF el = Null THEN "sleep" ELSE "done",
                                 !.result = IF el = Throw THEN Null ELSE el]
       ELSE wt' = [wt EXCEPT !.pc = "done", !.result = Null]
    /\ UNCHANGED <<detVars, ctlVars, fillVars, up, pf>>

\* the timer of "await this.delay(100)" fires, on time or late
WaitWake ==
    /\ wt.pc = "sleep"
    /\ \E late \in {0, MaxLateness} :
         wt' = [wt EXCEPT !.pc = "loop", !.elapsed = @ + PollInterval + late]
    /\ UNCHANGED <<detVars, ctlVars, fillVars, up, pf>>

\* the page adds or removes an element while the wait is suspended in its
\* delay
WaitDomChanges ==
    /\ wt.pc = "sleep"
    /\ wt.changes < MaxDomChanges
    /\ \E l \in WaitLocators :
         wt' = [wt EXCEPT !.changes = @ + 1,
                          !.dom = IF l \in @ THEN @ \ {l} ELSE @ \cup {l}]
    /\ UNCHANGED <<detVars, ctlVars, fillVars, up, pf>>

NextWait ==
    \/ WaitTick
    \/ WaitWake
    \/ WaitDomChanges

SpecWait == InitWait /\ [][NextWait]_vars

\* timers fire and the loop runs on
SpecWaitFair == SpecWait /\ WF_vars(WaitTick) /\ WF_vars(WaitWake)

(***************************************************************************)
(* FileUploader.tryUpload as a state machine.                              *)
(***************************************************************************)
XRL == <<".//", "input#resume-upload-input">>
XSuccL == <<".//", "span.resume-upload-success">>
XRW == <<".//", "div.resumeUpload">>
XDel == <<"%INPUTPATH%", "//button.delete-file">>
XNested == <<"%INPUTPATH%", "//input[type=file]">>
XSuccW == <<".//", "div.file-upload-successful">>

\* the first resume candidates of the three platforms; the times of their
\* success indicators are WaitTime here
GreenhouseResume ==
    ActionSpec(<<XR>>, "none", "none",
      << Step("uploadResume", "none", 0, 0, NoPath, FALSE) >>)

LeverResume ==
    ActionSpec(<<XRL>>, "none", "none",
      << Step("uploadResume", "none", 0, 0, NoPath, FALSE),
         Step("none", "none", 0, WaitTime, XSuccL, FALSE) >>)

WorkdayResume ==
    ActionSpec(<<XRW>>, "none", "none",
      << Step("click", "none", 0, 0, XDel, TRUE),
         Step("uploadResume", "none", 0, 0, XNested, FALSE),
         Step("none", "none", 0, WaitTime, XSuccW, FALSE) >>)

UploadConfigs == {GreenhouseResume, LeverResume, WorkdayResume}

UploadLocators(c) ==
    CASE c = GreenhouseResume -> {XR}
      [] c = LeverResume      -> {XRL, XSuccL}
      [] c = WorkdayResume    -> {XRW, replacePlaceholder(XDel, XRW),
                                  replacePlaceholder(XNested, XRW), XSuccW}

\* "inputElement.tagName !== 'INPUT' || inputElement.type !== 'file'" and
\* inputElement.querySelector('input[type="file"]'): the file input that an
\* element is or holds
fileInputOf(el, d) ==
    IF el \in {XR, XRL, replacePlaceholder(XNested, XRW)} THEN el
    ELSE IF replacePlaceholder(XNested, el) \in d
         THEN replacePlaceholder(XNested, el) ELSE Null

InitUpload ==
    /\ url = U_Other
    /\ configs = ATS_CONFIGS
    /\ atsResult = "pending"
    /\ pat = NoPattern
    /\ patResult = FALSE
    /\ CtlIdle
    /\ FillIdle
    /\ wt = NoWait
    /\ pf = NoCall
    /\ \E c \in UploadConfigs : \E d \in SUBSET UploadLocators(c) :
         up = [pc |-> "find", cfg |-> c, dom |-> d, changes |-> 0, input |-> Null,
               ai |-> 0, elapsed |-> 0, clicked |-> FALSE, fileSet |-> FALSE,
               warned |-> 0, result |-> "pending"]

upReturns(u, r) == [u EXCEPT !.pc = "done", !.result = r]

\* tryUpload: the steps whose element is waited for after the file is set
waitsForIndicator(action) ==
    action.time # 0 /\ action.path # NoPath /\ action.method # "uploadResume"

\* the loop over the indicators goes on after step i, or tryUpload returns
\* true
RECURSIVE nextIndicator(_, _)
nextIndicator(u, i) ==
    IF i > Len(u.cfg.actions) THEN upReturns(u, "true")
    ELSE IF waitsForIndicator(u.cfg.actions[i])
         THEN [u EXCEPT !.pc = "wait", !.ai = i, !.elapsed = 0]
         ELSE nextIndicator(u, i + 1)

\* tryUpload up to its first await: the input element is looked up
UploadFind ==
    /\ up.pc = "find"
    /\ LET el == findFirstMatch(up.cfg.path, up.dom)
       IN  up' = IF el = Null THEN upReturns(up, "false")
                 ELSE [up EXCEPT !.input = el, !.pc = "pre", !.ai = 1]
    /\ UNCHANGED <<detVars, ctlVars, fillVars, wt, pf>>

\* executePreUploadActions, one step: a click step with a path clicks the
\* element found there and waits; a step's delay is waited for
UploadPre ==
    /\ up.pc = "pre"
    /\ IF up.ai > Len(up.cfg.actions)
       THEN up' = [up EXCEPT !.pc = "locate"]
       ELSE LET action == up.cfg.actions[up.ai]
                target == IF action.path # NoPath /\ action.method = "click"
                             /\ action.method # "uploadResume"
                          THEN find(replacePlaceholder(action.path, joinPaths(up.cfg.path)),
                                    up.dom)
                          ELSE Null
            IN  up' = IF target # Null
                      THEN [up EXCEPT !.clicked = TRUE, !.pc = "preSleep"]
                      ELSE IF action.delay # 0 /\ action.method # "uploadResume"
                           THEN [up EXCEPT !.pc = "preSleep"]
                           ELSE [up EXCEPT !.ai = @ + 1]
    /\ UNCHANGED <<detVars, ctlVars, fillVars, wt, pf>>

\* the timers of executePreUploadActions fire
UploadPreWake ==
    /\ up.pc = "preSleep"
    /\ up' = [up EXCEPT !.pc = "pre", !.ai = @ + 1]
    /\ UNCHANGED <<detVars, ctlVars, fillVars, wt, pf>>

\* FileUploader.setFileInput: true when the file was set on the input
\* (directly or by the fallback), false when both ways raised
SetFileOutcomes == BOOLEAN

\* tryUpload: a success indicator that is not found
indicatorMissFails_Yes == TRUE
indicatorMissFails == FALSE

\* tryUpload after the pre-upload actions: the input of an uploadResume step
\* with a path is taken if found, the file input is determined, the file is
\* set, and the wait for the first indicator is entered
UploadLocate ==
    /\ up.pc = "locate"
    /\ LET rebinds == { i \in 1..Len(up.cfg.actions) :
                          /\ up.cfg.actions[i].method = "uploadResume"
                          /\ up.cfg.actions[i].path # NoPath
                          /\ find(replacePlaceholder(up.cfg.actions[i].path,
                                                     joinPaths(up.cfg.path)), up.dom) # Null }
           input   == IF rebinds = {} THEN up.input
                      ELSE find(replacePlaceholder(
                                  up.cfg.actions[CHOOSE i \in rebinds :
                                                   \A j \in rebinds : j <= i].path,
                                  joinPaths(up.cfg.path)), up.dom)
           fileInput == fileInputOf(input, up.dom)
       IN  IF fileInput = Null
           THEN up' = upReturns([up EXCEPT !.input = input], "false")
           ELSE \E uploaded \in SetFileOutcomes :
                  up' = IF uploaded
                        THEN nextIndicator([up EXCEPT !.input = fileInput,
                                                      !.fileSet = TRUE], 1)
                        ELSE upReturns([up EXCEPT !.input = fileInput], "false")
    /\ UNCHANGED <<detVars, ctlVars, fillVars, wt, pf>>

\* waitForElement(successPath, action.time), one turn of its loop, and what
\* tryUpload does with its result
UploadWaitTick ==
    /\ up.pc = "wait"
    /\ LET action == up.cfg.actions[up.ai]
       IN  IF up.elapsed < action.time
           THEN up' = IF find(action.path, up.dom) # Null
                      THEN nextIndicator(up, up.ai + 1)
                      ELSE [up EXCEPT !.pc = "sleep"]
           ELSE up' = IF indicatorMissFails
                      THEN upReturns([up EXCEPT !.warned = @ + 1], "false")
                      ELSE nextIndicator([up EXCEPT !.warned = @ + 1], up.ai + 1)
    /\ UNCHANGED <<detVars, ctlVars, fillVars, wt, pf>>

\* the timer of waitForElement's delay fires, on time or late
UploadWake ==
    /\ up.pc = "sleep"
    /\ \E late \in {0, MaxLateness} :
         up' = [up EXCEPT !.pc = "wait", !.elapsed = @ + PollInterval + late]
    /\ UNCHANGED <<detVars, ctlVars, fillVars, wt, pf>>

\* the page adds or removes an element while tryUpload is suspended
UploadDomChanges ==
    /\ up.pc \in {"preSleep", "sleep"}
    /\ up.changes < MaxDomChanges
    /\ \E l \in UploadLocators(up.cfg) :
         up' = [up EXCEPT !.changes = @ + 1,
                          !.dom = IF l \in @ THEN @ \ {l} ELSE @ \cup {l}]
    /\ UNCHANGED <<detVars, ctlVars, fillVars, wt, pf>>

NextUpload ==
    \/ UploadFind
    \/ UploadPre
    \/ UploadPreWake
    \/ UploadLocate
    \/ UploadWaitTick
    \/ UploadWake
    \/ UploadDomChanges

SpecUpload == InitUpload /\ [][NextUpload]_vars

(***************************************************************************)
(* ResumeTailor: prioritizeExperience, prioritizeSkills, extractKeywords.  *)
(***************************************************************************)
\* everything but pf, while one of these functions is exercised
PureIdle ==
    /\ url = U_Other
    /\ configs = ATS_CONFIGS
    /\ atsResult = "pending"
    /\ pat = NoPattern
    /\ patResult = FALSE
    /\ CtlIdle
    /\ FillIdle
    /\ wt = NoWait
    /\ up = NoUpload

\* String.prototype.toLowerCase
LowerCase(s) == [i \in 1..Len(s) |-> ToLower(s[i])]

\* String.prototype.includes
Includes(text, sub) ==
    \E i \in 0..(Len(text) - Len(sub)) : SubSeq(text, i + 1, i + Len(sub)) = sub

\* ---- Array.prototype.sort(comparefn) ----
Sign(x) == IF x < 0 THEN -1 ELSE IF x > 0 THEN 1 ELSE 0

IndexOrders(n) == { p \in [1..n -> 1..n] : \A i, j \in 1..n : p[i] = p[j] => i = j }

\* The comparator is given by its table c: c[i][j] is comparefn(a_i, a_j) for
\* the elements a_1 .. a_n of the array.
\* comparefn is a consistent comparator for the elements of the array
ConsistentComparator(n, c) ==
    \A i, j, k \in 1..n :
      /\ Sign(c[i][j]) = -Sign(c[j][i])
      /\ (c[i][j] = 0 /\ c[j][k] = 0) => c[i][k] = 0
      /\ (c[i][j] < 0 /\ c[j][k] < 0) => c[i][k] < 0

\* the orders p that list the elements ascending by comparefn, equal
\* elements in their original order (the sort is stable)
StableOrders(n, c) ==
    { p \in IndexOrders(n) :
        \A i, j \in 1..n :
          i < j => \/ c[p[i]][p[j]] < 0
                   \/ (c[p[i]][p[j]] = 0 /\ p[i] < p[j]) }

\* the orders sort can leave the array in: with a consistent comparator the
\* stable sorted order; otherwise the order is implementation-defined
sortOutcomes(n, c) ==
    IF ConsistentComparator(n, c) THEN StableOrders(n, c) ELSE IndexOrders(n)

\* ---- prioritizeExperience ----
MaxEntries == 3
ScoreTie == 5     \* "if (Math.abs(scoreDiff) > 5)"

\* this.jobKeywords, as tailor() has set it
JobKeywords == << <<"j","a","v","a">>, <<"k","o","t","l","i","n">>, <<"s","p","r","i","n","g">>, <<"d","o","c","k","e","r">>, <<"l","i","n","u","x">>, <<"r","e","d","i","s">> >>

ExperienceTitle == <<"E","n","g","i","n","e","e","r">>
ExperienceDescriptions == { <<"S","a","l","e","s">>, <<"J","a","v","a"," ","K","o","t","l","i","n"," ","S","p","r","i","n","g">>, <<"J","a","v","a"," ","K","o","t","l","i","n"," ","S","p","r","i","n","g"," ","D","o","c","k","e","r"," ","L","i","n","u","x"," ","R","e","d","i","s">> }
ExperienceYears == {2019, 2020, 2021}

ExperienceEntries ==
    { [title |-> ExperienceTitle, description |-> d, year |-> y] :
        d \in ExperienceDescriptions, y \in ExperienceYears }

\* ResumeTailor.scoreRelevance
scoreRelevance(text, keywords) ==
    Cardinality({ i \in 1..Len(keywords) : Includes(text, keywords[i]) })

\* "{ ...exp, score: this.scoreRelevance(`${exp.title} ${exp.description}`
\* .toLowerCase(), this.jobKeywords) }"
scoredEntry(exp) ==
    [title |-> exp.title, description |-> exp.description, year |-> exp.year,
     score |-> scoreRelevance(LowerCase(exp.title \o <<" ">> \o exp.description),
                              JobKeywords)]

\* the comparator of prioritizeExperience
compareExperience(a, b) ==
    LET scoreDiff == b.score - a.score
    IN  IF scoreDiff > ScoreTie \/ -scoreDiff > ScoreTie THEN scoreDiff
        ELSE b.year - a.year

\* ResumeTailor.prioritizeExperience
prioritizeExperience(experience, hasDescription) ==
    IF experience = <<>> THEN { <<>> }
    ELSE IF ~hasDescription THEN { experience }
    ELSE LET n      == Len(experience)
             scored == [i \in 1..n |-> scoredEntry(experience[i])]
             c      == [i \in 1..n |-> [j \in 1..n |->
                          compareExperience(scored[i], scored[j])]]
         IN  { [i \in 1..n |-> scored[p[i]]] : p \in sortOutcomes(n, c) }

InitExperience ==
    /\ PureIdle
    /\ \E experience \in SeqsUpTo(ExperienceEntries, MaxEntries), jd \in BOOLEAN :
         pf = [pc |-> "call", experience |-> experience, hasDescription |-> jd,
               out |-> <<>>]

PrioritizeExperience ==
    /\ pf.pc = "call"
    /\ \E out \in prioritizeExperience(pf.experience, pf.hasDescription) :
         pf' = [pf EXCEPT !.pc = "returned", !.out = out]
    /\ UNCHANGED <<detVars, ctlVars, fillVars, wt, up>>

NextExperience == PrioritizeExperience

SpecExperience == InitExperience /\ [][NextExperience]_vars

\* ---- prioritizeSkills ----
MaxSkills == 3

Skills == { <<"G","o">>, <<"R","u","s","t">>, <<"S","Q","L">>, <<"P","e","r","l">> }

\* jobDescription.description; Null: no job description
SkillDescriptions == { Null, <<"W","e"," ","u","s","e"," ","G","O"," ","a","n","d"," ","s","q","l">> }

\* "{ skill, score: jobText.includes(skill.toLowerCase()) ? 10 : 0 }"
scoredSkill(skills, i, jobText) ==
    [skill |-> skills[i],
     score |-> IF Includes(jobText, LowerCase(skills[i])) THEN 10 ELSE 0]

\* an alternative comparator, matching skills last
compareSkills_Ascending(a, b) == a.score - b.score

\* "(a, b) => b.score - a.score"
compareSkills(a, b) == b.score - a.score

\* ResumeTailor.prioritizeSkills: the list returned, with the input position
\* each of its skills came from
prioritizeSkills(skills, description) ==
    IF skills = <<>> THEN { [out |-> <<>>, order |-> <<>>] }
    ELSE IF description = Null
    THEN { [out |-> skills, order |-> [i \in 1..Len(skills) |-> i]] }
    ELSE LET n       == Len(skills)
             jobText == LowerCase(description)
             scored  == [i \in 1..n |-> scoredSkill(skills, i, jobText)]
             c       == [i \in 1..n |-> [j \in 1..n |->
                           compareSkills(scored[i], scored[j])]]
         IN  { [out |-> [i \in 1..n |-> scored[p[i]].skill], order |-> p] :
               p \in sortOutcomes(n, c) }

InitSkills ==
    /\ PureIdle
    /\ \E skills \in SeqsUpTo(Skills, MaxSkills), description \in SkillDescriptions :
         pf = [pc |-> "call", skills |-> skills, description |-> description,
               order |-> <<>>, out |-> <<>>]

PrioritizeSkills ==
    /\ pf.pc = "call"
    /\ \E r \in prioritizeSkills(pf.skills, pf.description) :
         pf' = [pf EXCEPT !.pc = "returned", !.out = r.out, !.order = r.order]
    /\ UNCHANGED <<detVars, ctlVars, fillVars, wt, up>>

NextSkills == PrioritizeSkills

SpecSkills == InitSkills /\ [][NextSkills]_vars

\* ---- extractKeywords ----
MaxWords == 4
MinKeywordLength == 3    \* "if (word.length > 3)"
KeywordLimit == 50       \* ".slice(0, 50)"

\* \w of the regular expression: letters, digits and the underscore
WordChars ==
    DOMAIN LowerTable \cup { LowerTable[c] : c \in DOMAIN LowerTable }
      \cup {"0","1","2","3","4","5","6","7","8","9","_"}

\* the words descriptions are written with
KeywordVocabulary ==
    { <<"D","o","c","k","e","r">>,
      <<"d","o","c","k","e","r">>,
      <<"L","i","n","u","x">>,
      <<"c","o","n","s","t","r","u","c","t","o","r">>,
      <<"t","e","a","m">>,
      <<"G","o">>,
      <<"_","_","p","r","o","t","o","_","_">> }

\* a description: the words separated by a comma and a space
RECURSIVE joinWords(_)
joinWords(ws) ==
    IF ws = <<>> THEN <<>>
    ELSE IF Len(ws) = 1 THEN ws[1]
    ELSE ws[1] \o <<",", " ">> \o joinWords(Tail(ws))

\* String.prototype.split(/\W+/), from position i on; cur is the piece being
\* read and inSeparator says that the previous character was not a word
\* character
RECURSIVE splitNonWord(_, _, _, _)
splitNonWord(text, i, cur, inSeparator) ==
    IF i > Len(text) THEN << cur >>
    ELSE IF text[i] \in WordChars
    THEN splitNonWord(text, i + 1, Append(cur, text[i]), FALSE)
    ELSE IF inSeparator THEN splitNonWord(text, i + 1, cur, TRUE)
    ELSE << cur >> \o splitNonWord(text, i + 1, <<>>, TRUE)

\* the properties a plain object inherits, among lower-case words longer than
\* 3: constructor is a function, __proto__ an accessor whose setter ignores
\* strings
InheritedData == { <<"c","o","n","s","t","r","u","c","t","o","r">> }
InheritedAccessor == { <<"_","_","p","r","o","t","o","_","_">> }

\* "frequency[word] = (frequency[word] || 0) + 1" for the words in turn;
\* frequency lists the own properties in insertion order, isNumber is false
\* where the value is a string (an inherited value + 1)
RECURSIVE countWords(_, _)
countWords(words, frequency) ==
    IF words = <<>> THEN frequency
    ELSE
      LET word == Head(words)
          own  == { i \in 1..Len(frequency) : frequency[i].word = word }
      IN  IF Len(word) <= MinKeywordLength THEN countWords(Tail(words), frequency)
          ELSE IF own # {}
          THEN LET i == CHOOSE k \in own : TRUE
               IN  countWords(Tail(words),
                     [frequency EXCEPT ![i].n = IF frequency[i].isNumber
                                                THEN frequency[i].n + 1
                                                ELSE frequency[i].n])
          ELSE IF word \in InheritedAccessor THEN countWords(Tail(words), frequency)
          ELSE IF word \in InheritedData
          THEN countWords(Tail(words),
                 Append(frequency, [word |-> word, isNumber |-> FALSE, n |-> 0]))
          ELSE countWords(Tail(words),
                 Append(frequency, [word |-> word, isNumber |-> TRUE, n |-> 1]))

stopWords ==
    { <<"t","h","e">>,
      <<"a","n","d">>,
      <<"f","o","r">>,
      <<"w","i","t","h">>,
      <<"y","o","u">>,
      <<"y","o","u","r">>,
      <<"w","i","l","l">>,
      <<"h","a","v","e">>,
      <<"a","r","e">>,
      <<"o","u","r">>,
      <<"t","h","i","s">>,
      <<"t","h","a","t">>,
      <<"f","r","o","m">>,
      <<"t","h","e","y">>,
      <<"b","e","e","n">>,
      <<"m","o","r","e">>,
      <<"w","h","e","n">>,
      <<"w","h","a","t">>,
      <<"a","b","o","u","t">>,
      <<"w","h","i","c","h">>,
      <<"t","h","e","i","r">>,
      <<"w","o","r","k">>,
      <<"t","e","a","m">>,
      <<"a","l","s","o">> }

\* "(a, b) => b[1] - a[1]": NaN when a value is a string, which sort takes
\* as +0
compareFrequency(a, b) ==
    IF a.isNumber /\ b.isNumber THEN b.n - a.n ELSE 0

\* ResumeTailor.extractKeywords
extractKeywords(description) ==
    IF description = <<>> THEN { <<>> }
    ELSE
      LET text     == LowerCase(description)
          words    == splitNonWord(text, 1, <<>>, FALSE)
          entries  == countWords(words, <<>>)
          filtered == SelectSeq(entries, LAMBDA e : e.word \notin stopWords)
          n        == Len(filtered)
          c        == [i \in 1..n |-> [j \in 1..n |->
                         compareFrequency(filtered[i], filtered[j])]]
      IN  { [i \in 1..(IF n < KeywordLimit THEN n ELSE KeywordLimit) |->
               filtered[p[i]].word] :
            p \in sortOutcomes(n, c) }

InitKeywords ==
    /\ PureIdle
    /\ \E ws \in SeqsUpTo(KeywordVocabulary, MaxWords) :
         pf = [pc |-> "call", description |-> joinWords(ws), out |-> <<>>]

ExtractKeywords ==
    /\ pf.pc = "call"
    /\ \E out \in extractKeywords(pf.description) :
         pf' = [pf EXCEPT !.pc = "returned", !.out = out]
    /\ UNCHANGED <<detVars, ctlVars, fillVars, wt, up>>

NextKeywords == ExtractKeywords

SpecKeywords == InitKeywords /\ [][NextKeywords]_vars

(***************************************************************************)
(* JobExtractor.extractYearsOfExperience.                                  *)
(***************************************************************************)
DigitChars == <<"0","1","2","3","4","5","6","7","8","9">>
DigitSet == { DigitChars[k] : k \in 1..Len(DigitChars) }
DigitValue(c) == (CHOOSE k \in 1..Len(DigitChars) : DigitChars[k] = c) - 1

\* \s of the regular expressions
Whitespace == {" ", "\t", "\n"}

\* parseInt of a run of decimal digits
RECURSIVE parseInt(_)
parseInt(digits) ==
    IF digits = <<>> THEN 0
    ELSE parseInt(SubSeq(digits, 1, Len(digits) - 1)) * 10
           + DigitValue(digits[Len(digits)])

\* The matchers below work on positions: a set P holds the positions the
\* match may have reached, and each operator gives the positions after one
\* more piece of the pattern (flag i: letter case is ignored).
IsLiteralAt(text, p, lit) ==
    /\ p + Len(lit) - 1 <= Len(text)
    /\ LowerCase(SubSeq(text, p, p + Len(lit) - 1)) = lit

\* lit
AfterLiteral(text, P, lit) ==
    { p + Len(lit) : p \in { q \in P : IsLiteralAt(text, q, lit) } }

\* (?:a|b|...)
AfterAny(text, P, lits) == UNION { AfterLiteral(text, P, lit) : lit \in lits }

\* (?:a|b|...)?
AfterOptional(text, P, lits) == P \cup AfterAny(text, P, lits)

\* \s*
AfterSpaces(text, P) ==
    { q \in 1..(Len(text) + 1) :
        \E p \in P : p <= q /\ \A k \in p..(q - 1) : text[k] \in Whitespace }

\* \d+
AfterDigits(text, P) ==
    { q \in 1..(Len(text) + 1) :
        \E p \in P : p < q /\ \A k \in p..(q - 1) : text[k] \in DigitSet }

\* (?:years?|yrs?)
AfterYears(text, P) ==
    AfterOptional(text, AfterLiteral(text, P, <<"y","e","a","r">>), { <<"s">> })
      \cup AfterOptional(text, AfterLiteral(text, P, <<"y","r">>), { <<"s">> })

\* the captures <<from, to>> of group 1 with which the pattern matches at
\* position i
\* /(\d+)\+?\s*(?:years?|yrs?)\s*(?:of)?\s*(?:experience|exp)/i
yearsOfExperiencePattern(text, i) ==
    { <<i, q>> : q \in
        { q \in AfterDigits(text, {i}) :
            AfterAny(text,
              AfterSpaces(text,
                AfterOptional(text,
                  AfterSpaces(text,
                    AfterYears(text,
                      AfterSpaces(text, AfterOptional(text, {q}, { <<"+">> })))),
                  { <<"o","f">> })),
              { <<"e","x","p","e","r","i","e","n","c","e">>, <<"e","x","p">> }) # {} } }

\* /(?:minimum|at least|min)\s*(\d+)\s*(?:years?|yrs?)/i
minimumYearsPattern(text, i) ==
    UNION { { <<p, q>> : q \in
               { q \in AfterDigits(text, {p}) :
                   AfterYears(text, AfterSpaces(text, {q})) # {} } } :
            p \in AfterSpaces(text,
                    AfterAny(text, {i}, { <<"m","i","n","i","m","u","m">>, <<"a","t"," ","l","e","a","s","t">>, <<"m","i","n">> })) }

\* /(\d+)\s*-\s*(\d+)\s*(?:years?|yrs?)/i
yearsRangePattern(text, i) ==
    { <<i, q>> : q \in
        { q \in AfterDigits(text, {i}) :
            AfterYears(text,
              AfterSpaces(text,
                AfterDigits(text,
                  AfterSpaces(text,
                    AfterLiteral(text, AfterSpaces(text, {q}), <<"-">>))))) # {} } }

NoMatch == <<>>

\* text.match(pattern)[1], where captures[i] are the captures with which the
\* pattern matches at position i: the match at the leftmost position, \d+
\* taking as many digits as the rest of the pattern allows; NoMatch for null
matchGroup1(text, captures) ==
    LET starts == { i \in 1..Len(text) : captures[i] # {} }
    IN  IF starts = {} THEN NoMatch
        ELSE LET i == CHOOSE k \in starts : \A l \in starts : k <= l
                 c == CHOOSE x \in captures[i] :
                        \A y \in captures[i] : y[2] <= x[2]
             IN  << SubSeq(text, c[1], c[2] - 1) >>

\* the value extractYearsOfExperience returns; isNull for null
YearsResult(isNull, value) == [isNull |-> isNull, value |-> value]

\* JobExtractor.extractYearsOfExperience
extractYearsOfExperience(description) ==
    LET positions == 1..Len(description)
        m1 == matchGroup1(description,
                [i \in positions |-> yearsOfExperiencePattern(description, i)])
        m2 == matchGroup1(description,
                [i \in positions |-> minimumYearsPattern(description, i)])
        m3 == matchGroup1(description,
                [i \in positions |-> yearsRangePattern(description, i)])
    IN  IF description = <<>> THEN YearsResult(TRUE, 0)
        ELSE IF m1 # NoMatch THEN YearsResult(FALSE, parseInt(m1[1]))
        ELSE IF m2 # NoMatch THEN YearsResult(FALSE, parseInt(m2[1]))
        ELSE IF m3 # NoMatch THEN YearsResult(FALSE, parseInt(m3[1]))
        ELSE YearsResult(TRUE, 0)

\* the descriptions the function is exercised on: prefix, number, unit, rest
YearsPrefixes == { <<>>, <<"W","e"," ","n","e","e","d"," ">>, <<"M","i","n","i","m","u","m"," ">>, <<"A","t"," ","l","e","a","s","t"," ">> }
YearsNumbers == { <<"2">>, <<"5">>, <<"1","0">>, <<"3","-","5">> }
YearsUnits == { <<"+"," ","y","e","a","r","s">>, <<"+"," ","y","r","s">>, <<" ","y","e","a","r","s">>, <<"+"," ","Y","e","a","r","s">> }
YearsRests == { <<>>, <<" ","o","f"," ","e","x","p","e","r","i","e","n","c","e">>, <<" ","e","x","p","e","r","i","e","n","c","e">>, <<" ","o","f"," ","G","o"," ","a","n","d"," ","K","u","b","e","r","n","e","t","e","s"," ","e","x","p","e","r","i","e","n","c","e">>, <<" ","i","n"," ","a"," ","s","i","m","i","l","a","r"," ","r","o","l","e">> }

YearsDescriptions ==
    { <<>> } \cup
    { a \o n \o u \o r :
        a \in YearsPrefixes, n \in YearsNumbers, u \in YearsUnits, r \in YearsRests }

InitYears ==
    /\ PureIdle
    /\ \E description \in YearsDescriptions :
         pf = [pc |-> "call", description |-> description,
               out |-> YearsResult(TRUE, 0)]

ExtractYearsOfExperience ==
    /\ pf.pc = "call"
    /\ pf' = [pf EXCEPT !.pc = "returned",
                        !.out = extractYearsOfExperience(pf.description)]
    /\ UNCHANGED <<detVars, ctlVars, fillVars, wt, up>>

NextYears == ExtractYearsOfExperience

SpecYears == InitYears /\ [][NextYears]_vars

(***************************************************************************)
(* FormFiller.fillCheckboxRadio, applied to one element again and again.   *)
(***************************************************************************)
MaxApplications == 2

\* values in source form: booleans, numbers, strings
CheckValues ==
    {"true", "false", "'true'", "'false'", "'1'", "1", "'yes'", "'Yes'", "'no'",
     "''", "undefined"}

ElementTypes == {"checkbox", "radio"}

\* an alternative reading of the value: its truthiness in JavaScript
shouldCheck_Truthy(value) == ToBoolean(value)

\* "value === true || value === 'true' || value === '1' || value === 'yes'"
shouldCheck(value) == value \in {"true", "'true'", "'1'", "'yes'"}

\* element.click(): a checkbox toggles, a radio button becomes checked
click(type, checked) == IF type = "checkbox" THEN ~checked ELSE TRUE

InitCheckbox ==
    /\ PureIdle
    /\ \E value \in CheckValues, type \in ElementTypes, checked \in BOOLEAN :
         pf = [pc |-> "ready", value |-> value, type |-> type, checked |-> checked,
               clicks |-> 0, applications |-> 0, before |-> checked,
               clicked |-> FALSE]

\* FormFiller.fillCheckboxRadio(element, value)
FillCheckboxRadio ==
    /\ pf.pc = "ready"
    /\ pf.applications < MaxApplications
    /\ LET doClick == pf.checked # shouldCheck(pf.value)
       IN  pf' = [pf EXCEPT !.applications = @ + 1,
                            !.before = pf.checked,
                            !.clicked = doClick,
                            !.clicks = IF doClick THEN @ + 1 ELSE @,
                            !.checked = IF doClick THEN click(pf.type, pf.checked)
                                        ELSE @]
    /\ UNCHANGED <<detVars, ctlVars, fillVars, wt, up>>

NextCheckbox == FillCheckboxRadio

SpecCheckbox == InitCheckbox /\ [][NextCheckbox]_vars

(***************************************************************************)
(* FileUploader.base64ToFile, on the characters of the stored payload.     *)
(***************************************************************************)
MaxBytes == 4

Base64Alphabet ==
    << "A","B","C","D","E","F","G","H","I","J","K","L","M","N","O","P",
       "Q","R","S","T","U","V","W","X","Y","Z","a","b","c","d","e","f",
       "g","h","i","j","k","l","m","n","o","p","q","r","s","t","u","v",
       "w","x","y","z","0","1","2","3","4","5","6","7","8","9","+","/" >>

base64Value(c) == (CHOOSE k \in 1..Len(Base64Alphabet) : Base64Alphabet[k] = c) - 1

\* FileReader.readAsDataURL: the base64 text of the bytes, padded with "="
RECURSIVE encodeBase64(_)
encodeBase64(bytes) ==
    IF bytes = <<>> THEN <<>>
    ELSE IF Len(bytes) = 1
    THEN << Base64Alphabet[(bytes[1] \div 4) + 1],
            Base64Alphabet[((bytes[1] % 4) * 16) + 1], "=", "=" >>
    ELSE IF Len(bytes) = 2
    THEN << Base64Alphabet[(bytes[1] \div 4) + 1],
            Base64Alphabet[((bytes[1] % 4) * 16 + bytes[2] \div 16) + 1],
            Base64Alphabet[((bytes[2] % 16) * 4) + 1], "=" >>
    ELSE << Base64Alphabet[(bytes[1] \div 4) + 1],
            Base64Alphabet[((bytes[1] % 4) * 16 + bytes[2] \div 16) + 1],
            Base64Alphabet[((bytes[2] % 16) * 4 + bytes[3] \div 64) + 1],
            Base64Alphabet[(bytes[3] % 64) + 1] >>
         \o encodeBase64(SubSeq(bytes, 4, Len(bytes)))

\* popup.js fileToBase64: "data:<type>;base64,<payload>"
fileToBase64(bytes, type) ==
    <<"d","a","t","a",":">> \o type \o <<";","b","a","s","e","6","4",",">> \o encodeBase64(bytes)

\* the position of the first c in s from position i on, 0 for none
RECURSIVE indexOf(_, _, _)
indexOf(s, c, i) ==
    IF i > Len(s) THEN 0
    ELSE IF s[i] = c THEN i
    ELSE indexOf(s, c, i + 1)

\* base64.split(',')[n], n = 0 or 1, for a string with a comma
splitComma(base64, n) ==
    LET first  == indexOf(base64, ",", 1)
        second == indexOf(base64, ",", first + 1)
    IN  IF n = 0 THEN SubSeq(base64, 1, first - 1)
        ELSE SubSeq(base64, first + 1,
                    IF second = 0 THEN Len(base64) ELSE second - 1)

\* an alternative that takes the whole string as the payload
base64Data_Whole(base64) == base64

\* "base64.includes(',') ? base64.split(',')[1] : base64"
base64Data(base64) ==
    IF indexOf(base64, ",", 1) # 0 THEN splitComma(base64, 1) ELSE base64

DefaultMimeType == <<"a","p","p","l","i","c","a","t","i","o","n","/","p","d","f">>

\* "base64.split(',')[0].match(/:(.*?);/)?.[1] || 'application/pdf'"
mimeType(base64) ==
    IF indexOf(base64, ",", 1) = 0 THEN DefaultMimeType
    ELSE LET header == splitComma(base64, 0)
             colons == { i \in 1..Len(header) :
                           header[i] = ":" /\ indexOf(header, ";", i + 1) # 0 }
         IN  IF colons = {} THEN DefaultMimeType
             ELSE LET i == CHOOSE k \in colons : \A l \in colons : k <= l
                      j == indexOf(header, ";", i + 1)
                  IN  IF j = i + 1 THEN DefaultMimeType
                      ELSE SubSeq(header, i + 1, j - 1)

\* atob on the characters left after the padding is removed: 4 characters
\* give 3 bytes, a rest of 2 gives 1 byte and a rest of 3 gives 2
RECURSIVE decodeBase64(_)
decodeBase64(cs) ==
    IF Len(cs) < 2 THEN <<>>
    ELSE LET v(k) == base64Value(cs[k])
         IN  IF Len(cs) = 2 THEN << v(1) * 4 + v(2) \div 16 >>
             ELSE IF Len(cs) = 3
             THEN << v(1) * 4 + v(2) \div 16, (v(2) % 16) * 16 + v(3) \div 4 >>
             ELSE << v(1) * 4 + v(2) \div 16, (v(2) % 16) * 16 + v(3) \div 4,
                     (v(3) % 4) * 64 + v(4) >>
                  \o decodeBase64(SubSeq(cs, 5, Len(cs)))

\* atob: raises for text that is not base64 (InvalidCharacterError)
atob(text) ==
    LET n  == Len(text)
        cs == IF n > 0 /\ n % 4 = 0 /\ text[n] = "="
              THEN (IF text[n - 1] = "=" THEN SubSeq(text, 1, n - 2)
                    ELSE SubSeq(text, 1, n - 1))
              ELSE text
        alphabet == { Base64Alphabet[k] : k \in 1..Len(Base64Alphabet) }
    IN  IF Len(cs) % 4 = 1 \/ \E k \in 1..Len(cs) : cs[k] \notin alphabet
        THEN [raised |-> TRUE, bytes |-> <<>>]
        ELSE [raised |-> FALSE, bytes |-> decodeBase64(cs)]

\* FileUploader.base64ToFile: the File's bytes and type
fileFromBase64(base64) ==
    LET byteCharacters == atob(base64Data(base64))
    IN  IF byteCharacters.raised THEN [raised |-> TRUE, bytes |-> <<>>, type |-> <<>>]
        ELSE [raised |-> FALSE, bytes |-> byteCharacters.bytes,
              type |-> mimeType(base64)]

FileBytes == {0, 1, 77, 255}
FileTypes == { <<>>, <<"a","p","p","l","i","c","a","t","i","o","n","/","p","d","f">>, <<"a","p","p","l","i","c","a","t","i","o","n","/","m","s","w","o","r","d">> }

\* bytes encoded with a data-URL header of the type (header) or bare
InitBase64 ==
    /\ PureIdle
    /\ \E bytes \in SeqsUpTo(FileBytes, MaxBytes), type \in FileTypes,
          header \in BOOLEAN :
         pf = [pc |-> "call", bytes |-> bytes, type |-> type, header |-> header,
               base64 |-> IF header THEN fileToBase64(bytes, type)
                          ELSE encodeBase64(bytes),
               out |-> [raised |-> FALSE, bytes |-> <<>>, type |-> <<>>]]

Base64ToFile ==
    /\ pf.pc = "call"
    /\ pf' = [pf EXCEPT !.pc = "returned", !.out = fileFromBase64(pf.base64)]
    /\ UNCHANGED <<detVars, ctlVars, fillVars, wt, up>>

NextBase64 == Base64ToFile

SpecBase64 == InitBase64 /\ [][NextBase64]_vars

(***************************************************************************)
(* ResumeTailor.tailor: the work-authorization and EEO fields of the       *)
(* tailored profile.  The contact, summary, experience, education and      *)
(* skills fields are built from other inputs and are left out here.        *)
(***************************************************************************)
EEOFields ==
    {"authorizedToWork", "requiresSponsorship", "gender", "ethnicity", "veteran",
     "disability"}

\* the stored profile: null, or an object with a value for each field
ProfileValues == {"undefined", "false", "'yes'"}
StoredProfiles == {Null} \cup [EEOFields -> ProfileValues]

\* the stored resume: null, an object without contact, an object with contact
StoredResumes == {"null", "withoutContact", "withContact"}

\* "profile?.field"
optionalField(profile, f) == IF profile = Null THEN "undefined" ELSE profile[f]

\* ResumeTailor.getDefaultProfile: the object it returns has none of these
\* properties, so each of them reads as undefined
getDefaultProfile(profile) == [f \in EEOFields |-> "undefined"]

\* ResumeTailor.tailor
tailor(resume, profile) ==
    IF resume \in {"null", "withoutContact"} THEN getDefaultProfile(profile)
    ELSE [f \in EEOFields |-> optionalField(profile, f)]

InitTailor ==
    /\ PureIdle
    /\ \E resume \in StoredResumes, profile \in StoredProfiles :
         pf = [pc |-> "call", resume |-> resume, profile |-> profile,
               out |-> [f \in EEOFields |-> "undefined"]]

Tailor ==
    /\ pf.pc = "call"
    /\ pf' = [pf EXCEPT !.pc = "returned", !.out = tailor(pf.resume, pf.profile)]
    /\ UNCHANGED <<detVars, ctlVars, fillVars, wt, up>>

NextTailor == Tailor

SpecTailor == InitTailor /\ [][NextTailor]_vars

(***************************************************************************)
(* JobExtractor.extract.  The page is described by what each lookup finds: *)
(* "absent" for no element, "blank" for an element whose text is only      *)
(* white space, "text" for one with text, "long" for one whose text        *)
(* exceeds the length a fallback accepts.  Values are JavaScript values    *)
(* in source form.                                                         *)
(***************************************************************************)
ElementKinds == {"absent", "blank", "text"}

ExtractPages ==
    [title : ElementKinds, company : ElementKinds, description : ElementKinds,
     location : ElementKinds,
     titleElement : {"absent", "blank", "long", "text"},
     documentTitle : {"''", "'Engineer'"},
     companyElement : {"absent", "long", "text"},
     meta : {"absent", "noContent", "emptyContent", "content"},
     hostname : {"acme.myworkdayjobs.com", "boards.greenhouse.io"},
     descriptionElement : {"absent", "short", "long"}]

\* JobExtractor.extractText for one of the configured selectors:
\* XPathUtils.getText gives the trimmed textContent, '' for no element
extractText(found, text) == IF found = "text" THEN text ELSE "''"

\* JobExtractor.extractDescription: cleanDescription(innerText || textContent)
extractDescription(found) == IF found = "text" THEN "'description'" ELSE "''"

\* JobExtractor.extractTitleFallback
extractTitleFallback(doc) ==
    IF doc.titleElement = "text" THEN "'title'"
    ELSE doc.documentTitle

\* meta.getAttribute('content'): null for an element without the attribute
getAttributeContent(meta) ==
    CASE meta = "noContent"    -> "null"
      [] meta = "emptyContent" -> "''"
      [] meta = "content"      -> "'Acme'"

\* hostname.match(/([^.]+)\.myworkdayjobs\.com/i); the two patterns before it
\* hold a slash, which a hostname never does
companyFromHostname(hostname) ==
    IF hostname = "acme.myworkdayjobs.com" THEN "'Acme'" ELSE "''"

\* JobExtractor.extractCompanyFallback
extractCompanyFallback(doc) ==
    IF doc.companyElement = "text" THEN "'company'"
    ELSE IF doc.meta # "absent" THEN getAttributeContent(doc.meta)
    ELSE companyFromHostname(doc.hostname)

\* JobExtractor.extractDescriptionFallback: "if (text.length > 200)"
extractDescriptionFallback(doc) ==
    IF doc.descriptionElement = "long" THEN "'long description'" ELSE "''"

\* JobExtractor.extract
extract(doc) ==
    LET title       == extractText(doc.title, "'title'")
        company     == extractText(doc.company, "'company'")
        description == extractDescription(doc.description)
    IN  [title       |-> IF ~ToBoolean(title) THEN extractTitleFallback(doc) ELSE title,
         company     |-> IF ~ToBoolean(company) THEN extractCompanyFallback(doc) ELSE company,
         description |-> IF ~ToBoolean(description) THEN extractDescriptionFallback(doc)
                         ELSE description,
         location    |-> extractText(doc.location, "'location'")]

NoExtract ==
    [title |-> "undefined", company |-> "undefined", description |-> "undefined",
     location |-> "undefined"]

InitExtract ==
    /\ PureIdle
    /\ \E doc \in ExtractPages :
         pf = [pc |-> "call", doc |-> doc, out |-> NoExtract]

Extract ==
    /\ pf.pc = "call"
    /\ pf' = [pf EXCEPT !.pc = "returned", !.out = extract(pf.doc)]
    /\ UNCHANGED <<detVars, ctlVars, fillVars, wt, up>>

NextExtract == Extract

SpecExtract == InitExtract /\ [][NextExtract]_vars

(***************************************************************************)
(* Glob semantics, the reference the detector claims are stated against:   *)
(* the whole URL conforms to the pattern, "*" standing for any run of              *)
(* characters (possibly empty), "?" for exactly one character, every other *)
(* character for itself, letter case ignored.                              *)
(***************************************************************************)
RECURSIVE GlobMatch(_, _)
GlobMatch(p, s) ==
    IF p = <<>> THEN s = <<>>
    ELSE IF Head(p) = "*"
         THEN \E k \in 0..Len(s) : GlobMatch(Tail(p), SubSeq(s, k + 1, Len(s)))
         ELSE /\ s # <<>>
              /\ Head(p) = "?" \/ ToLower(Head(p)) = ToLower(Head(s))
              /\ GlobMatch(Tail(p), Tail(s))

GlobIncluded(u, config) == \E i \in 1..Len(config.urls) : GlobMatch(config.urls[i], u)
GlobExcluded(u, config) ==
    \E i \in 1..Len(config.urlsExcluded) : GlobMatch(config.urlsExcluded[i], u)

\* the registry entry detect() returned
Detected == CHOOSE i \in 1..Len(configs) : configs[i].name = atsResult

\* C1: detect() never returns a platform one of whose exclusion patterns the
\* URL matches, even when the URL also matches one of its inclusion patterns.
C1_ExcludedNeverDetected ==
    atsResult \notin {"pending", "null"} => ~GlobExcluded(url, configs[Detected])

\* C2: matchPattern is true iff the URL conforms to the pattern under glob
\* semantics ("*" any run, "?" exactly one character, everything else
\* literal, case ignored).
C2_MatchIsGlob ==
    pat # NoPattern => (patResult = GlobMatch(pat, url))

\* C3: detect() returns the first platform, in registry order, whose
\* inclusion patterns match the URL and whose exclusion patterns do not, and
\* none when no platform qualifies; with the Lever-only registry and
\* https://jobs.lever.co/figma/abcd-1234 it returns the Lever entry.
Qualifies(i) == GlobIncluded(url, configs[i]) /\ ~GlobExcluded(url, configs[i])

C3_FirstQualifyingPlatform ==
    atsResult # "pending" =>
        /\ (\A i \in 1..Len(configs) : ~Qualifies(i)) => atsResult = "null"
        /\ \A i \in 1..Len(configs) :
              (Qualifies(i) /\ \A j \in 1..(i - 1) : ~Qualifies(j))
                  => atsResult = configs[i].name
        /\ (configs = LeverOnly /\ url = U_LeverPosting) => atsResult = "Lever"

\* C4: with the shipped registry the documented URL shapes are detected:
\* boards.greenhouse.io/vimeo/jobs/5123817 as Greenhouse, jobs.lever.co/figma
\* as Lever, every https://<tenant>.myworkdayjobs.com/<path> as Workday.
C4_DocumentedUrlsDetected ==
    (configs = ATS_CONFIGS /\ atsResult # "pending") =>
        /\ url = U_Greenhouse => atsResult = "Greenhouse"
        /\ url = U_LeverBoard => atsResult = "Lever"
        /\ url \in WorkdayUrls => atsResult = "Workday"

\* C5: if the post-submission check is true for the detected platform when
\* the controller initialises, autofill is never offered on that page:
\* showAutofillButton is not called, no autofill callback is registered on
\* the overlay, and no click starts handleAutofill.
C5_NoAutofillOnSubmittedPage ==
    submittedAtInit =>
        /\ ~offered
        /\ onAutofill = "null"
        /\ runs = 0
        /\ hpc = "idle"

\* a submitted page on which the overlay button has been clicked
C5_Witness == submittedAtInit /\ clicks > 0

\* ---- FormFiller ----
Started(k) == task[k].status # "notStarted"
Completed(k) == task[k].status = "done"

\* C6: fill processes the fields one at a time in the declared order of
\* inputSelectors: a field is taken up only when every field declared before
\* it has completed, delays and waits included, and every lookup, action or
\* event belongs to a field before which all are completed and after which
\* none is started.
C6_StrictlySequential ==
    /\ \A k \in 1..NFields :
         Started(k) => \A j \in 1..(k - 1) : Completed(j)
    /\ lastEvent.kind # "none" =>
         /\ \A j \in 1..(lastEvent.field - 1) : Completed(j)
         /\ \A j \in (lastEvent.field + 1)..NFields : ~Started(j)

\* the second field of the dropdown configuration is being waited for after
\* the first went through its delay and its wait and was filled
C6_Witness ==
    /\ fcfg = DropdownConfig
    /\ filledCount = 1
    /\ lastEvent.kind = "poll"
    /\ lastEvent.field = 2

\* C7: a field whose value in the tailored profile is undefined, null or the
\* empty string is skipped (false) and none of its locators is evaluated; a
\* field whose value is 0 or false goes on to its candidate locators.
C7_SkipWithoutValue ==
    \A k \in 1..NFields :
      LET value == getValueForField(Fields[k].name, data)
      IN  /\ value \in {"undefined", "null", "''"} =>
               /\ tried[k] = {}
               /\ task[k].status \in {"notStarted", "start", "done"}
               /\ Completed(k) => ~task[k].result
          /\ (value \in {"0", "false"} /\ Fields[k].name # "resume" /\ Completed(k)) =>
               tried[k] # {}

\* one field was skipped for its empty value and another filled with 0
C7_Witness ==
    /\ fcfg = SimpleConfig
    /\ data["firstName"] = "''"
    /\ Completed(1) /\ ~task[1].result /\ tried[1] = {}
    /\ data["email"] = "0"
    /\ Completed(3) /\ task[3].result /\ filledBy[3].value = "0"

\* a candidate none of whose paths finds an element in the page
Absent(spec) ==
    \A i \in 1..Len(spec.path) : spec.path[i] \notin dom \/ spec.path[i] \in InvalidSelectors

\* the method a candidate declares, or else the platform's default method
DeclaredOrDefault(spec) ==
    IF ~spec.isString /\ spec.method # "none" THEN spec.method ELSE fcfg.defaultMethod

\* C8: the candidates of a field are tried in declared order up to the first
\* that fills: a candidate is passed over only when it finds no element, the
\* fill is made on the element of the first candidate that finds one, with
\* the method that candidate declares or else the platform default, and
\* fillField returns true without a later candidate being looked up.
C8_FirstCandidateThatFills ==
    /\ \A k \in 1..NFields :
         /\ tried[k] = 1..Cardinality(tried[k])
         /\ (Completed(k) /\ task[k].result) => tried[k] = 1..task[k].ci
         /\ filledBy[k] # NoFill =>
              /\ Completed(k) /\ task[k].result
              /\ task[k].ci = filledBy[k].cand
    /\ lastEvent.kind = "fill" =>
         LET k    == lastEvent.field
             spec == Cands(k)[lastEvent.cand]
         IN  /\ \E i \in 1..Len(spec.path) : lastEvent.target = spec.path[i]
             /\ lastEvent.target \in dom
             /\ lastEvent.method = DeclaredOrDefault(spec)
             /\ lastEvent.value = getValueForField(Fields[k].name, data)
             /\ filledBy[k] = [cand |-> lastEvent.cand, target |-> lastEvent.target,
                               method |-> lastEvent.method, value |-> lastEvent.value]
    /\ (lastEvent.kind = "lookup" /\ lastEvent.target = Null) =>
         Absent(Cands(lastEvent.field)[lastEvent.cand])

\* first_name filled on its third candidate, which declares no method, with
\* the platform default, after the first candidate was absent
C8_Witness ==
    /\ fcfg = SimpleConfig
    /\ XA \notin dom
    /\ lastEvent.kind = "fill"
    /\ lastEvent.field = 1
    /\ lastEvent.target = XB
    /\ lastEvent.method = "default"
    /\ tried[1] = {1, 2, 3}

\* C9: fillField does not raise; for a field with a value whose every
\* candidate is absent from the page, or cannot be evaluated, it returns
\* false after going through all of them.
C9_AbsentNeverRaises ==
    /\ floc # "raised"
    /\ \A k \in 1..NFields :
         /\ task[k].status # "raised"
         /\ ( /\ Completed(k)
              /\ domChanges = 0
              /\ tried[k] # {}
              /\ \A c \in 1..Len(Cands(k)) : Absent(Cands(k)[c]) )
            => (~task[k].result /\ tried[k] = 1..Len(Cands(k)))

\* first_name skipped after its three candidates, the rejected selector
\* among them, found nothing
C9_Witness ==
    /\ fcfg = SimpleConfig
    /\ domChanges = 0
    /\ XA \notin dom /\ XB \notin dom
    /\ Completed(1) /\ ~task[1].result
    /\ tried[1] = {1, 2, 3}
    /\ floc = "done"

C11_AllowFailureContinues ==
    \A st \in softTimeouts :
      LET k    == st[1]
          c    == st[2]
          a    == st[3]
          spec == Cands(k)[c]
      IN  /\ spec.actions[a].allowFailure
          /\ (lastEvent.kind = "action" /\ lastEvent.field = k /\ lastEvent.cand = c
              /\ lastEvent.step = a + 1) => lastEvent.target = st[4]
          /\ (task[k].status \in {"act", "delay", "wait", "sleep"} /\ task[k].ci = c)
               => task[k].ai > a
          /\ (Completed(k) /\ <<k, c>> \notin timedOut) =>
               (task[k].result /\ task[k].ci = c)

\* the wait for the optional control timed out, the next step filled the
\* phone field's own element, and the field was counted as filled
C11_Witness ==
    /\ fcfg = DropdownConfig
    /\ <<2, 1, 1, XP>> \in softTimeouts
    /\ Completed(2) /\ task[2].result
    /\ floc = "done"

\* ---- AutofillController.handleAutofill ----
\* the stages that come after a stage in handleAutofill
StagesAfter(stage) ==
    { Stages[i] : i \in (StageIndex(stage) + 1)..Len(Stages) }

\* C12: in a run of handleAutofill in which a stage raised, no later stage
\* was entered, showError was called once, AUTOFILL_COMPLETE was sent once
\* with success false and never with success true, and the run is over; runs
\* are started by clicks only.
C12_RaiseAbortsRun ==
    /\ runs <= clicks
    /\ autofillRun.raisedAt # "none" =>
         /\ autofillRun.stages \cap StagesAfter(autofillRun.raisedAt) = {}
         /\ autofillRun.errors = 1
         /\ autofillRun.fail = 1
         /\ autofillRun.ok = 0
         /\ hpc = "idle"

\* formFiller.fill raised in a run on a page with a resume file
C12_Witness ==
    /\ autofillRun.raisedAt = "fill"
    /\ resumeFile
    /\ runs = 1

\* C13: a run whose stored resume payload cannot be decoded goes on after
\* the upload stage: the application is tracked and AUTOFILL_COMPLETE is
\* sent with success true, not false.
C13_DecodeFailureAbortsUploadOnly ==
    ("upload" \in autofillRun.stages /\ ~resumeDecodes /\ hpc = "idle") =>
        /\ "track" \in autofillRun.stages
        /\ autofillRun.ok = 1
        /\ autofillRun.fail = 0

\* C15: no handleAutofill run is started while another is active.
C15_OneRunAtATime == ~overlap

\* a second run is active after the first ended in an error, and the button
\* was clicked at while the second run was active
C15_Witness ==
    /\ runs = 2
    /\ hpc = "upload"
    /\ autofillRun.clicksDuring > 0

\* ---- waitForElement ----
\* the first path of the list that finds an element in the page d
FirstPresent(paths, d) ==
    IF \E i \in 1..Len(paths) : paths[i] \in d
    THEN paths[CHOOSE i \in 1..Len(paths) :
                 paths[i] \in d /\ \A j \in 1..(i - 1) : paths[j] \notin d]
    ELSE Null

WaitTicks == Len(wt.tickDoms)

WaitSemantics ==
    \* every tick but the last found no candidate
    /\ \A n \in 1..(WaitTicks - 1) : FirstPresent(wt.paths, wt.tickDoms[n]) = Null
    \* the ticks are at least 100 ms apart and fall before the timeout
    /\ WaitTicks >= 1 =>
         /\ (WaitTicks - 1) * PollInterval < wt.timeout
         /\ wt.elapsed >= (WaitTicks - 1) * PollInterval
            \/ (wt.pc = "loop" /\ wt.elapsed >= WaitTicks * PollInterval)
    /\ wt.pc = "sleep" => FirstPresent(wt.paths, wt.tickDoms[WaitTicks]) = Null
    /\ wt.pc # "raised"
    /\ wt.pc = "done" =>
         \* an element is returned by the tick that finds it: the first
         \* candidate of the list present at that tick
         /\ wt.result # Null =>
              /\ WaitTicks >= 1
              /\ wt.result = FirstPresent(wt.paths, wt.tickDoms[WaitTicks])
         \* none is returned only after the timeout, no tick having found
         \* a candidate
         /\ wt.result = Null =>
              /\ wt.elapsed >= wt.timeout
              /\ \A n \in 1..WaitTicks : FirstPresent(wt.paths, wt.tickDoms[n]) = Null
         \* an element present when the wait starts is returned at once
         /\ FirstPresent(wt.paths, wt.dom0) # Null =>
              (WaitTicks = 1 /\ wt.result = FirstPresent(wt.paths, wt.dom0))

\* C16: waitForElement terminates; its ticks are 100 ms or more apart; a tick
\* returns the first candidate of the list that it finds present, so an
\* element present at the start is returned at once; none is returned only
\* when the timeout has elapsed and no tick has found a candidate.
C16_WaitResolvesOrTimesOut == []WaitSemantics /\ <>(wt.pc = "done")

\* the second candidate of the list appeared during the wait and was
\* returned by a later tick
C16_Witness ==
    /\ wt.pc = "done"
    /\ wt.paths = <<XA, XB>>
    /\ wt.result = XB
    /\ WaitTicks >= 2
    /\ wt.dom0 = {}

\* ---- FileUploader.tryUpload ----
\* C14: once the file has been set on the file input tryUpload returns
\* true; a success indicator that did not appear within its time is counted
\* as a warning only.
C14_IndicatorMissIsWarning ==
    /\ up.warned > 0 => up.fileSet
    /\ (up.pc = "done" /\ up.fileSet) => up.result = "true"
    /\ (up.pc = "done" /\ ~up.fileSet) => up.result = "false"

\* the file was set, the indicator did not appear in time, and tryUpload
\* returned true
C14_Witness ==
    /\ up.pc = "done"
    /\ up.cfg = LeverResume
    /\ up.fileSet
    /\ up.warned = 1
    /\ up.result = "true"

\* ---- ResumeTailor ----
\* C17: in the list prioritizeExperience returns for a job description, of
\* two entries whose scores differ by more than 5 the higher-scoring one
\* comes first, and of two entries whose scores differ by at most 5 the one
\* with the later start year comes first.
C17_ExperienceOrder ==
    (pf.pc = "returned" /\ pf.hasDescription) =>
       \A i, j \in 1..Len(pf.out) :
         i < j =>
           LET a == pf.out[i]
               b == pf.out[j]
           IN  IF a.score - b.score > 5 \/ b.score - a.score > 5
               THEN a.score > b.score
               ELSE a.year >= b.year

\* a skill that occurs in the description, letter case ignored
OccursIn(skill, description) ==
    \E i \in 0..(Len(description) - Len(skill)) :
       LowerCase(SubSeq(description, i + 1, i + Len(skill))) = LowerCase(skill)

\* C18: prioritizeSkills returns a permutation of its input in which every
\* skill occurring in the job description (as a substring, letter case
\* ignored) precedes every skill that does not, and skills of equal score
\* keep their relative order; without a job description the list is
\* returned as it was.
C18_SkillsStablyPartitioned ==
    pf.pc = "returned" =>
       IF pf.description = Null THEN pf.out = pf.skills
       ELSE /\ Len(pf.out) = Len(pf.skills)
            /\ pf.order \in IndexOrders(Len(pf.skills))
            /\ \A i \in 1..Len(pf.out) : pf.out[i] = pf.skills[pf.order[i]]
            /\ \A i, j \in 1..Len(pf.out) :
                 i < j =>
                   /\ OccursIn(pf.out[j], pf.description)
                        => OccursIn(pf.out[i], pf.description)
                   /\ (OccursIn(pf.out[i], pf.description)
                         = OccursIn(pf.out[j], pf.description))
                        => pf.order[i] < pf.order[j]

C18_Witness ==
    /\ pf.pc = "returned"
    /\ pf.description # Null
    /\ Len(pf.skills) >= 3
    /\ pf.out # pf.skills
    /\ \E i, j \in 1..Len(pf.skills) : i < j /\ pf.skills[i] = pf.skills[j]

\* how often word stands in text as a whole word, letter case ignored
Occurrences(word, text) ==
    Cardinality({ i \in 1..Len(text) :
        /\ i + Len(word) - 1 <= Len(text)
        /\ LowerCase(SubSeq(text, i, i + Len(word) - 1)) = word
        /\ i = 1 \/ text[i - 1] \notin WordChars
        /\ i + Len(word) > Len(text) \/ text[i + Len(word)] \notin WordChars })

\* C19: extractKeywords returns at most 50 keywords, in non-increasing order
\* of their frequency in the description, none of length 3 or less and none
\* from the stopword set.
C19_KeywordsByFrequency ==
    pf.pc = "returned" =>
       /\ Len(pf.out) <= 50
       /\ \A i \in 1..Len(pf.out) :
            Len(pf.out[i]) > 3 /\ pf.out[i] \notin stopWords
       /\ \A i, j \in 1..Len(pf.out) :
            i < j => Occurrences(pf.out[i], pf.description)
                       >= Occurrences(pf.out[j], pf.description)

\* ---- JobExtractor ----
\* the numbers N that the text states as "N+ years"
StatedYears(text) ==
    { parseInt(SubSeq(text, i, j)) :
        <<i, j>> \in { x \in (1..Len(text)) \X (1..Len(text)) :
            /\ x[1] <= x[2]
            /\ \A k \in x[1]..x[2] : text[k] \in DigitSet
            /\ x[1] = 1 \/ text[x[1] - 1] \notin DigitSet
            /\ IsLiteralAt(text, x[2] + 1, <<"+"," ","y","e","a","r","s">>) } }

\* C20: for a description that states an experience requirement as
\* "N+ years", extractYearsOfExperience returns N; for "We need 5+ years of
\* Go and Kubernetes experience" it returns 5.
C20_YearsReturned ==
    pf.pc = "returned" =>
       \A n \in StatedYears(pf.description) : pf.out = YearsResult(FALSE, n)

\* ---- FormFiller, continued ----
\* the fillField call k is inside the action sequence of its candidate
InActions(k) == task[k].status \in {"act", "delay", "wait", "sleep"}

\* C21: for a candidate that names a value-transform table, the value handed
\* to the action sequence is the table's entry for the raw value when the
\* raw value is a key of the table, and the raw value otherwise.
C21_NamedTableApplied ==
    \A k \in 1..NFields :
      InActions(k) =>
        LET spec == Cands(k)[task[k].ci]
        IN  spec.values \in DOMAIN VALUE_TRANSFORMS =>
              task[k].tvalue =
                IF task[k].value \in DOMAIN VALUE_TRANSFORMS[spec.values]
                THEN VALUE_TRANSFORMS[spec.values][task[k].value]
                ELSE task[k].value

\* ---- JobExtractor.extract ----
IsString(v) == v \notin {"null", "undefined"}

\* C22: extract returns title, company, description and location each as a
\* string, possibly empty, never null or undefined, whatever the configured
\* selectors and the fallbacks find on the page.
C22_ExtractGivesStrings ==
    pf.pc = "returned" =>
       /\ IsString(pf.out.title)
       /\ IsString(pf.out.company)
       /\ IsString(pf.out.description)
       /\ IsString(pf.out.location)

\* ---- ResumeTailor.tailor ----
\* C23: tailor passes the stored profile's work-authorization and EEO fields
\* unchanged into the tailored profile, whatever the stored resume holds,
\* a resume without contact data included.
C23_EEOFieldsPassThrough ==
    (pf.pc = "returned" /\ pf.profile # Null) =>
       \A f \in EEOFields : pf.out[f] = pf.profile[f]

\* ---- FileUploader.base64ToFile ----
\* C24: base64ToFile gives back exactly the bytes that were encoded, with or
\* without a data-URL header in front of the payload, and the file's type is
\* the one named in the header, or application/pdf when there is no header.
C24_Base64RoundTrip ==
    pf.pc = "returned" =>
       /\ ~pf.out.raised
       /\ pf.out.bytes = pf.bytes
       /\ pf.out.type = IF pf.header /\ pf.type # <<>> THEN pf.type
                        ELSE DefaultMimeType

C24_Witness ==
    /\ pf.pc = "returned"
    /\ pf.header
    /\ pf.type # <<>> /\ pf.type # DefaultMimeType
    /\ Len(pf.bytes) >= 4
    /\ pf.out.bytes = pf.bytes
    /\ pf.out.type = pf.type

\* ---- FormFiller.executeActions ----
\* the step the last action event belongs to, and its candidate
EventSpec == Cands(lastEvent.field)[lastEvent.cand]
EventStep == EventSpec.actions[lastEvent.step]

\* C25: a step with a target locator of its own and a wait applies its
\* action to the element resolved from that locator: the wait and the
\* re-binding of the current element come before the step's action.
C25_ActionOnOwnTarget ==
    (lastEvent.kind = "action" /\ stepWaits(EventSpec, EventStep)) =>
       lastEvent.target = actionPath(EventSpec, EventStep)

\* C26: a step's delay is a pre-delay: once the step's action or event has
\* been dispatched, no delay of that step is still to come.
C26_DelayBeforeAction ==
    (lastEvent.kind = "action" /\ EventStep.delay # 0) =>
       task[lastEvent.field].status # "delay"

\* ---- FormFiller.fillCheckboxRadio ----
\* the values that mean checked
MeansChecked(value) == value \in {"true", "'true'", "'1'", "'yes'"}

CheckboxSemantics ==
    pf.applications >= 1 =>
       /\ pf.clicked = (pf.before # MeansChecked(pf.value))
       /\ pf.type = "checkbox" =>
            /\ pf.checked = MeansChecked(pf.value)
            /\ pf.clicks <= 1

\* C27: fillCheckboxRadio clicks the element if and only if its checked
\* state differs from what the value means (true, 'true', '1' and 'yes' mean
\* checked, every other value unchecked) and changes checked only by a
\* click; where a click toggles the state, applying it again with the same
\* value clicks at most once in all and leaves checked as the value means.
C27_ClickIffDifferent ==
    /\ []CheckboxSemantics
    /\ [][pf.checked' # pf.checked => pf.clicks' = pf.clicks + 1]_vars

C27_Witness ==
    /\ pf.pc = "ready"
    /\ pf.type = "checkbox"
    /\ pf.applications >= 2
    /\ pf.clicks = 1
    /\ pf.checked

\* ---- FormFiller.fill ----
\* the entries of inputSelectors that fill has counted so far
Counted == { k \in 1..NFields : k < fi \/ (k = fi /\ floc = "delay") }

\* C28: fill counts each declared field exactly once, as filled iff one of
\* its candidates produced a successful fill and as skipped otherwise, so
\* that at the end filledCount + skipCount is the number of entries of
\* inputSelectors; the resume entry is always counted as skipped.
C28_EachFieldCountedOnce ==
    /\ filledCount = Cardinality({ k \in Counted : task[k].result })
    /\ skipCount = Cardinality({ k \in Counted : ~task[k].result })
    /\ floc = "done" => Counted = 1..NFields /\ filledCount + skipCount = NFields
    /\ \A k \in 1..NFields :
         /\ task[k].result => (Completed(k) /\ task[k].ci \in tried[k])
         /\ (Completed(k) /\ Fields[k].name = "resume") =>
              (~task[k].result /\ tried[k] = {})

C28_Witness ==
    /\ fcfg = SimpleConfig
    /\ floc = "done"
    /\ filledCount = 2
    /\ skipCount = 1

\* ---- AutofillController, continued ----
\* the run has ended without raising an exception
RanThrough == hpc = "idle" /\ autofillRun.stages # {} /\ autofillRun.raisedAt = "none"

\* C29: a handleAutofill run that raises no exception sends
\* TRACK_APPLICATION exactly once, after the form fill and the upload step
\* have finished and before AUTOFILL_COMPLETE with success true; it is sent
\* also when the upload reported failure or was skipped, and a failed
\* delivery does not make the run a failed run.
C29_TrackedOnce ==
    /\ autofillRun.tracked <= 1
    /\ RanThrough => (autofillRun.tracked = 1 /\ autofillRun.ok = 1)
    /\ autofillRun.tracked = 1 =>
         /\ "fill" \in autofillRun.trackedAfter
         /\ autofillRun.upload \in {"true", "false", "skipped"}
         /\ autofillRun.upload # "skipped" => "upload" \in autofillRun.trackedAfter
         /\ autofillRun.completeBeforeTrack = 0
    /\ (autofillRun.upload \in {"false", "skipped"} /\ hpc \in {"track", "idle"}) =>
         autofillRun.tracked = 1
    /\ (autofillRun.delivery = "failed" /\ hpc = "idle") =>
         /\ autofillRun.ok = 1
         /\ autofillRun.fail = 0
         /\ autofillRun.errors = 0

C29_Witness ==
    /\ RanThrough
    /\ autofillRun.upload = "false"
    /\ autofillRun.delivery = "failed"
    /\ autofillRun.ok = 1


\* C30: a click on the overlay control starts handleAutofill only when the
\* authentication check answered "authenticated" and a resume came back, so
\* init reached its end and registered the handleAutofill callback; after a
\* failed or negative authentication check the control carries the sign-in
\* callback only and its clicks send OPEN_SIGNIN without starting a run;
\* after a failed resume request or an answer without a resume no callback
\* is registered, the button is hidden, and no run and no sign-in happens.
C30_StartNeedsAuthAndResume ==
    /\ runs > 0 => (ipc = "ready" /\ offered /\ onAutofill = "autofill")
    /\ ipc = "needAuth" => (onAutofill = "signin" /\ ~offered /\ runs = 0)
    /\ ipc = "noResume" =>
          (onAutofill = "null" /\ buttonDisplay = "none" /\ ~offered
           /\ runs = 0 /\ signIns = 0)
    /\ signIns > 0 => ipc = "needAuth"

C30_Witness == ipc = "needAuth" /\ clicks > 0 /\ signIns = clicks /\ runs = 0

====
